---- MODULE Spec2Model ----
(***************************************************************************)
(* A model of the client runtime of the Freta SDK (microsoft/project-freta) *)
(*                                                                         *)
(*   - blob_upload            src/client/backend/azure_blobs.rs            *)
(*   - Auth / Backend         src/client/backend/auth.rs, backend/mod.rs   *)
(*   - list streams           src/client/mod.rs (images_list, ...)         *)
(*   - images_monitor         src/client/mod.rs                            *)
(*                                                                         *)
(* Each component has its own specification (SpecUpload, SpecAuth,         *)
(* SpecList, SpecMonitor).  A specification runs one component and leaves  *)
(* the variables of the others at the fixed values of their Parked         *)
(* predicate.                                                              *)
(***************************************************************************)
EXTENDS Integers, Sequences, FiniteSets, TLC

VARIABLES
    \* ---- blob_upload
    up_pc,          \* position in blob_upload
    up_size,        \* handle.metadata().len()
    up_rem,         \* bytes of the file not yet read from `handle`
    up_block_size,  \* block_size
    up_i,           \* loop index i, the next block id
    up_staged,      \* block_list.len(): blocks staged by put_block
    up_committed,   \* number of block ids listed in the put_block_list, or -1
    \* ---- Auth, Backend
    config,         \* Backend.config
    auth,           \* Backend.auth: the credential behind the mutex
    cache,          \* the file login.cache
    lock,           \* the holder of the mutex Backend.auth, or NoProc
    now,            \* OffsetDateTime::now_utc()
    pc,             \* position of Backend::new (process 0) and of each request
    t0,             \* per process: the `now` captured by the flow it runs
    tok,            \* per request: the token get_token returned
    next_token,     \* the next token the identity provider issues
    \* history of each request's get_token call
    call_when,      \* when get_token was called: "before", "at" or "after"
                    \* self.expires_on
    refresh_calls,  \* calls of refresh_token made by the get_token call
    exchanges,      \* exchanges started with the identity provider
    err,            \* per process: the Error it returned, or "none"
    flow,           \* the flow running, or last run, with the identity provider
    cache_ops,      \* the operations performed on the file login.cache
    \* ---- list streams (images_list, webhooks_list, webhooks_logs)
    ls_kind,        \* which of the three streams this is
    ls_pages,       \* the service: its pages, each with the cursor of the next
    ls_pc,          \* position in the stream's generator
    ls_filter,      \* the fields of the request object other than the cursor
    ls_continuation,\* the `continuation` field of the request object
    ls_result,      \* `result`, the page being iterated
    ls_j,           \* elements of `result` already yielded
    ls_yielded,     \* the elements the consumer has received, in order
    ls_requests,    \* the list requests issued: path and cursor, in order
    \* ---- images_monitor
    mon_pc,         \* position in images_monitor
    image,          \* `image`, the snapshot of the last poll
    prev_state,     \* `prev_state`
    mon_observed,   \* the snapshots the polls returned, in order
    mon_notices,    \* the info! notices: the poll each follows and its text
    mon_result,     \* what images_monitor returned
    mon_polls,      \* the outcome of every images_get: "ok" or the error
    \* ---- Backend::execute_raw, one call
    ex_pc,          \* position in execute_raw
    ex_call,        \* the arguments: method, query, body, and the token
                    \* get_token returned
    ex_request,     \* the request handed to send()
    ex_response,    \* `res`: the status and the body of the response
    ex_result,      \* what execute_raw returned
    \* ---- blob_upload and blob_download with the contents of the file
    bl_pc,          \* position in blob_upload, then in blob_download
    bl_source,      \* the contents of the file behind `handle`
    bl_handle,      \* what `handle` has not read yet
    bl_block_size,  \* block_size
    bl_i,           \* loop index i
    bl_block_list,  \* block_list
    bl_uncommitted, \* the service: the staged blocks, id and data
    bl_commits,     \* the service: the block lists put_block_list has sent
    bl_blob,        \* the service: the blob
    bl_stream,      \* what the download stream has not delivered yet
    bl_dest,        \* the file `filename` of blob_download
    bl_result,      \* what blob_upload, then blob_download, returned
    \* ---- compare (examples/webhook-receiver.rs)
    cmp_pc,         \* position in compare
    cmp_a,          \* a.bytes()
    cmp_b,          \* b.bytes()
    cmp_k,          \* the pairs of bytes the loop has taken from the zip
    cmp_result,     \* `result`, a u8
    cmp_ret,        \* the value compare returned
    \* ---- the configuration commands (Config::save, Config::load_or_default)
    cf_pc,          \* position in the command
    cf_op,          \* the command: "reset", "get" or "update"
    cf_phase,       \* "default" while load_or_default saves the default
    cf_home,        \* home_dir() is Some
    cf_config_file, \* the file cli.config
    cf_login_cache, \* the file login.cache
    cf_config,      \* the Config the command holds
    cf_saved,       \* a Config::save of this command has returned Ok
    cf_removed,     \* logout has removed login.cache
    cf_result,      \* what the command returned
    \* ---- fmt_uuid_v7 (models/webhooks)
    uu_pc,          \* position: the identifiers are formatted, then printed
    uu_millis,      \* `millis` of the two calls
    uu_random,      \* `random_bytes` of the two calls
    uu_uuid,        \* the two Uuid values, 16 bytes each
    uu_text,        \* Uuid::to_string of the two values
    \* ---- VirtualAddress (models/analysis/memory.rs)
    va_pc,          \* position: the operand is converted, then applied
    va_x,           \* the VirtualAddress on the left
    va_ops,         \* the operations still to come: `+ n` or `- n`
    va_rhs,         \* value.into(): the operand as a VirtualAddress
    va_done,        \* the operations applied, with the address before and after
    ft_op,          \* the operation: images_download, artifacts_list, ...
    ft_has,         \* which capability URLs the service's snapshots carry
    ft_pc,          \* position in the operation
    ft_url,         \* the URL taken from the image the monitor returned
    ft_step,        \* steps of the storage helper already done
    ft_storage,     \* the requests sent to blob storage: kind and URL, in order
    ft_output,      \* the output file of a download: absent or created
    ft_result,      \* what the operation returns
    iu_pc,          \* position in images_upload
    iu_format,      \* the argument `format`
    iu_file,        \* the size of the file at `path`, or NoFile
    iu_handle,      \* `handle`: whether the file was opened
    iu_requests,    \* the requests sent to the service, in order
    iu_records,     \* the image records the service created
    iu_image,       \* `image`, the response of images_create
    iu_result       \* what images_upload returns

upload_vars == <<up_pc, up_size, up_rem, up_block_size, up_i, up_staged, up_committed>>

auth_vars == <<config, auth, cache, lock, now, pc, t0, tok, next_token,
               call_when, refresh_calls, exchanges, err, flow, cache_ops>>

list_vars == <<ls_kind, ls_pages, ls_pc, ls_filter, ls_continuation, ls_result,
               ls_j, ls_yielded, ls_requests>>

monitor_vars == <<mon_pc, image, prev_state, mon_observed, mon_notices, mon_result,
                  mon_polls>>

exec_vars == <<ex_pc, ex_call, ex_request, ex_response, ex_result>>

blob_vars == <<bl_pc, bl_source, bl_handle, bl_block_size, bl_i, bl_block_list,
               bl_uncommitted, bl_commits, bl_blob, bl_stream, bl_dest, bl_result>>

compare_vars == <<cmp_pc, cmp_a, cmp_b, cmp_k, cmp_result, cmp_ret>>

config_vars == <<cf_pc, cf_op, cf_phase, cf_home, cf_config_file, cf_login_cache,
                 cf_config, cf_saved, cf_removed, cf_result>>

uuid_vars == <<uu_pc, uu_millis, uu_random, uu_uuid, uu_text>>

address_vars == <<va_pc, va_x, va_ops, va_rhs, va_done>>

fetch_vars == <<ft_op, ft_has, ft_pc, ft_url, ft_step, ft_storage, ft_output, ft_result>>

imagesupload_vars == <<iu_pc, iu_format, iu_file, iu_handle, iu_requests, iu_records, iu_image, iu_result>>

vars == <<upload_vars, auth_vars, list_vars, monitor_vars, exec_vars,
          blob_vars, compare_vars, config_vars, uuid_vars, address_vars,
          fetch_vars, imagesupload_vars>>

Max(a, b) == IF a >= b THEN a ELSE b

\* what an action of one component leaves alone: the other components
UploadFrame ==
    UNCHANGED <<auth_vars, list_vars, monitor_vars, exec_vars, blob_vars,
                compare_vars, config_vars, uuid_vars, address_vars, fetch_vars,
                imagesupload_vars>>

AuthFrame ==
    UNCHANGED <<upload_vars, list_vars, monitor_vars, exec_vars, blob_vars,
                compare_vars, config_vars, uuid_vars, address_vars, fetch_vars,
                imagesupload_vars>>

ListFrame ==
    UNCHANGED <<upload_vars, auth_vars, monitor_vars, exec_vars, blob_vars,
                compare_vars, config_vars, uuid_vars, address_vars, fetch_vars,
                imagesupload_vars>>

MonitorFrame ==
    UNCHANGED <<upload_vars, auth_vars, list_vars, exec_vars, blob_vars,
                compare_vars, config_vars, uuid_vars, address_vars, fetch_vars,
                imagesupload_vars>>

ExecFrame ==
    UNCHANGED <<upload_vars, auth_vars, list_vars, monitor_vars, blob_vars,
                compare_vars, config_vars, uuid_vars, address_vars, fetch_vars,
                imagesupload_vars>>

BlobFrame ==
    UNCHANGED <<upload_vars, auth_vars, list_vars, monitor_vars, exec_vars,
                compare_vars, config_vars, uuid_vars, address_vars, fetch_vars,
                imagesupload_vars>>

CompareFrame ==
    UNCHANGED <<upload_vars, auth_vars, list_vars, monitor_vars, exec_vars,
                blob_vars, config_vars, uuid_vars, address_vars, fetch_vars,
                imagesupload_vars>>

ConfigFrame ==
    UNCHANGED <<upload_vars, auth_vars, list_vars, monitor_vars, exec_vars,
                blob_vars, compare_vars, uuid_vars, address_vars, fetch_vars,
                imagesupload_vars>>

UuidFrame ==
    UNCHANGED <<upload_vars, auth_vars, list_vars, monitor_vars, exec_vars,
                blob_vars, compare_vars, config_vars, address_vars, fetch_vars,
                imagesupload_vars>>

AddressFrame ==
    UNCHANGED <<upload_vars, auth_vars, list_vars, monitor_vars, exec_vars,
                blob_vars, compare_vars, config_vars, uuid_vars, fetch_vars,
                imagesupload_vars>>

FetchFrame ==
    UNCHANGED <<upload_vars, auth_vars, list_vars, monitor_vars, exec_vars,
                blob_vars, compare_vars, config_vars, uuid_vars, address_vars,
                imagesupload_vars>>

ImagesUploadFrame ==
    UNCHANGED <<upload_vars, auth_vars, list_vars, monitor_vars, exec_vars,
                blob_vars, compare_vars, config_vars, uuid_vars, address_vars,
                fetch_vars>>

(***************************************************************************)
(* blob_upload                                                             *)
(*                                                                         *)
(* File sizes are u64 byte counts.  The sizes that matter here exceed      *)
(* 2^31, so a byte count is kept as two digits in base 50_000:             *)
(* [hi, lo] stands for hi * 50_000 + lo with 0 <= lo < 50_000.             *)
(* With the divisor of the code as the base, size / 50_000 is the digit hi.*)
(***************************************************************************)

\* the divisor in `size / 50_000`
BLOCK_COUNT_DIVISOR == 50000

\* the lower limit `1024 * 1024 * 10` of the block size
MIN_BLOCK_SIZE == 1024 * 1024 * 10

\* the byte count n (an Int) as two digits
U64(n) == [hi |-> n \div BLOCK_COUNT_DIVISOR, lo |-> n % BLOCK_COUNT_DIVISOR]

U64Zero == [hi |-> 0, lo |-> 0]

U64Geq(x, y) == \/ x.hi > y.hi
                \/ x.hi = y.hi /\ x.lo >= y.lo

\* x - y, for x >= y
U64Sub(x, y) ==
    IF x.lo >= y.lo
    THEN [hi |-> x.hi - y.hi, lo |-> x.lo - y.lo]
    ELSE [hi |-> x.hi - y.hi - 1, lo |-> x.lo + BLOCK_COUNT_DIVISOR - y.lo]

\* size / 50_000 (integer division)
DivBlockCount(size) == size.hi

\* std::cmp::max(1024 * 1024 * 10, size / 50_000)
BlockSize(size) == Max(MIN_BLOCK_SIZE, DivBlockCount(size))

\* handle.take(block_size).read_to_end(..): the bytes read, block_size of
\* them or what is left of the file
ReadData(rem, block_size) ==
    IF U64Geq(rem, U64(block_size)) THEN U64(block_size) ELSE rem

\* Bounds of the file sizes tried: the low digits 0..MaxLo and the listed
\* high digits scaled by 1..MaxScale
MaxLo == 1
MaxScale == 1

FileSizes ==
    {[hi |-> h * s, lo |-> l] :
        h \in {0, 209, 21474, MIN_BLOCK_SIZE}, s \in 1..MaxScale, l \in 0..MaxLo}
    \cup {U64(MIN_BLOCK_SIZE), U64(MIN_BLOCK_SIZE - 1), U64(1024 * 1024 * 1024),
          [hi |-> 2 * MIN_BLOCK_SIZE, lo |-> BLOCK_COUNT_DIVISOR - 1]}

UploadInit ==
    /\ up_pc = "start"
    /\ up_size \in FileSizes
    /\ up_rem = up_size
    /\ up_block_size = 0
    /\ up_i = 0
    /\ up_staged = 0
    /\ up_committed = -1

UploadParked ==
    /\ up_pc = "parked"
    /\ up_size = U64Zero
    /\ up_rem = U64Zero
    /\ up_block_size = 0
    /\ up_i = 0
    /\ up_staged = 0
    /\ up_committed = -1

\* lines 17-33: the file size, the block size, the blob client
UploadStart ==
    /\ UploadFrame
    /\ up_pc = "start"
    /\ \/ /\ up_block_size' = BlockSize(up_size)
          /\ up_pc' = "loop"
       \/ \* metadata(), try_into() or BlobClient::from_sas_url fails
          /\ up_pc' = "err"
          /\ UNCHANGED up_block_size
    /\ UNCHANGED <<up_size, up_rem, up_i, up_staged, up_committed>>

\* lines 36-54: one iteration of the loop
UploadBlock ==
    /\ UploadFrame
    /\ up_pc = "loop"
    /\ LET read_data == ReadData(up_rem, up_block_size) IN
       \/ \* read_data == 0: break
          /\ read_data = U64Zero
          /\ up_pc' = "commit"
          /\ UNCHANGED <<up_rem, up_i, up_staged>>
       \/ \* the block is staged
          /\ read_data # U64Zero
          /\ up_rem' = U64Sub(up_rem, read_data)
          /\ up_staged' = up_staged + 1
          /\ up_i' = up_i + 1
          /\ UNCHANGED up_pc
       \/ \* reading the block fails
          /\ up_pc' = "err"
          /\ UNCHANGED <<up_rem, up_i, up_staged>>
       \/ \* put_block fails: the block was read, and is not in block_list
          /\ read_data # U64Zero
          /\ up_rem' = U64Sub(up_rem, read_data)
          /\ up_pc' = "err"
          /\ UNCHANGED <<up_i, up_staged>>
    /\ UNCHANGED <<up_size, up_block_size, up_committed>>

\* lines 56-65: put_block_list
UploadCommit ==
    /\ UploadFrame
    /\ up_pc = "commit"
    /\ \/ /\ up_committed' = up_staged
          /\ up_pc' = "done"
       \/ /\ up_pc' = "err"
          /\ UNCHANGED up_committed
    /\ UNCHANGED <<up_size, up_rem, up_block_size, up_i, up_staged>>

UploadNext ==
    \/ UploadStart
    \/ UploadBlock
    \/ UploadCommit

(***************************************************************************)
(* Auth and Backend                                                        *)
(*                                                                         *)
(* Process 0 runs Backend::new (Auth::new); the processes of Requests run  *)
(* Backend::execute_raw.  An action ends where the code awaits the         *)
(* identity provider, the mutex or the service.  Access and refresh tokens *)
(* are opaque: the identity provider issues 2, 3, ... (next_token), and a  *)
(* credential found in the cache at the start holds token 1.               *)
(***************************************************************************)

\* Bounds
NumRequests == 2
MaxTime == 3
MaxExpiresIn == 1

Requests == 1..NumRequests

Procs == 0..NumRequests

\* no holder of the mutex
NoProc == 0

\* Option::None of Option<AccessToken>
NoToken == 0

\* Option::None of Config.client_secret
NoSecret == "<none>"

\* Duration::from_secs(60 * 60 * 24 * 365)
YEAR == 60 * 60 * 24 * 365

\* struct Auth, with the payload of TokenType laid out flat
Cred(client_id, type, access, secret, refresh, expires_on) ==
    [client_id |-> client_id, type |-> type, access |-> access,
     secret |-> secret, refresh |-> refresh, expires_on |-> expires_on]

\* the value of `auth` while Backend::new has not returned
NoAuth == Cred("", "unset", NoToken, NoSecret, NoToken, 0)

\* the file login.cache: absent, not parseable, or a serialized Auth
CacheAbsent == [state |-> "absent", entry |-> NoAuth]

CacheMalformed == [state |-> "malformed", entry |-> NoAuth]

CacheOf(a) == [state |-> "ok", entry |-> a]

\* const LOCAL_DEVELOPMENT_ENDPOINT
LOCAL_DEVELOPMENT_ENDPOINT == "http://localhost:7071"

\* the text of an address as it is typed or stored in the configuration file,
\* cut at the places where Url::parse cuts it
UrlText(scheme, host, port, path) ==
    [scheme |-> scheme, host |-> host, port |-> port, path |-> path]

\* the schemes whose addresses always have a path (http, https, ...)
SpecialSchemes == {"http", "https", "ws", "wss", "ftp"}

\* Url::parse (the deserializer of Config.api_url): the empty path of an
\* address with a special scheme becomes "/"
UrlParse(text) ==
    [text EXCEPT !.path = IF text.scheme \in SpecialSchemes /\ text.path = ""
                          THEN "/" ELSE text.path]

\* Url::to_string: the serialization of the parsed address
UrlToString(url) ==
    url.scheme \o "://" \o url.host
    \o (IF url.port = "" THEN "" ELSE ":" \o url.port)
    \o url.path

\* the addresses of the local development endpoint: as written in
\* LOCAL_DEVELOPMENT_ENDPOINT, and with a root path
LocalUrlTexts ==
    {UrlText("http", "localhost", "7071", ""),
     UrlText("http", "localhost", "7071", "/")}

LocalUrl == UrlParse(UrlText("http", "localhost", "7071", ""))

\* Config::new, line 127: Url::parse("https://freta.microsoft.com/")
DefaultUrl == UrlParse(UrlText("https", "freta.microsoft.com", "", "/"))

\* Auth::new, line 50
IsLocalDevelopment(cfg) == UrlToString(cfg.api_url) = LOCAL_DEVELOPMENT_ENDPOINT

\* the configurations: every kind of login against the local development
\* endpoint, and the default configuration
Configs ==
    {[api_url |-> UrlParse(u), client_id |-> "app", client_secret |-> s,
      ignore_login_cache |-> b] :
        u \in LocalUrlTexts, s \in {NoSecret, "s1"}, b \in BOOLEAN}
    \cup {[api_url |-> DefaultUrl, client_id |-> "app",
           client_secret |-> NoSecret, ignore_login_cache |-> FALSE]}

UsesLoginCache_Always(cfg) == TRUE

\* Auth::new line 54 and Auth::save line 248: `if !config.ignore_login_cache`
UsesLoginCache(cfg) == ~cfg.ignore_login_cache

SameClient_Always(entry, cfg) == TRUE

\* new_from_cache, line 75: `entry.client_id == config.client_id`
SameClient(entry, cfg) == entry.client_id = cfg.client_id

\* new_from_cache, lines 74-77: the entry of the file is returned
Adopts(file, cfg) == file.state = "ok" /\ SameClient(file.entry, cfg)

\* what login.cache may hold when the client is created, at time t
InitialCaches(t) ==
    {CacheAbsent, CacheMalformed}
    \cup {CacheOf(Cred(c, "ClientCredentials", 1, s, NoToken, e)) :
            c \in {"app", "other"}, s \in {"s1", "s2"}, e \in (t - 1)..(t + 1)}
    \cup {CacheOf(Cred(c, "DeviceCode", 1, NoSecret, 1, e)) :
            c \in {"app", "other"}, e \in (t - 1)..(t + 1)}

AuthInit ==
    /\ config \in Configs
    /\ now = 1
    /\ cache \in InitialCaches(now)
    /\ auth = NoAuth
    /\ lock = NoProc
    /\ pc = [p \in Procs |-> IF p = 0 THEN "new" ELSE "idle"]
    /\ t0 = [p \in Procs |-> 0]
    /\ tok = [r \in Requests |-> -1]
    /\ next_token = 2
    /\ call_when = [r \in Requests |-> "never"]
    /\ refresh_calls = [r \in Requests |-> 0]
    /\ exchanges = 0
    /\ err = [p \in Procs |-> "none"]
    /\ flow = [origin |-> "none", stream |-> "none", pending |-> 0]
    /\ cache_ops = {}

AuthParked ==
    /\ config = [api_url |-> LocalUrl, client_id |-> "app",
                 client_secret |-> NoSecret, ignore_login_cache |-> FALSE]
    /\ now = 0
    /\ cache = CacheAbsent
    /\ auth = NoAuth
    /\ lock = NoProc
    /\ pc = [p \in Procs |-> "parked"]
    /\ t0 = [p \in Procs |-> 0]
    /\ tok = [r \in Requests |-> -1]
    /\ next_token = 2
    /\ call_when = [r \in Requests |-> "never"]
    /\ refresh_calls = [r \in Requests |-> 0]
    /\ exchanges = 0
    /\ err = [p \in Procs |-> "none"]
    /\ flow = [origin |-> "none", stream |-> "none", pending |-> 0]
    /\ cache_ops = {}

\* Auth::new_without_auth
NewWithoutAuth(t) == Cred("development", "None", NoToken, NoSecret, NoToken, t + YEAR)

\* Auth::with_client_secret: the Auth built from the provider's response
\* (access token a, expiry d after the `now` taken before the exchange)
WithClientSecret(cfg, client_secret, t, a, d) ==
    Cred(cfg.client_id, "ClientCredentials", a, client_secret, NoToken, t + d)

\* Auth::with_service: the Auth built from the authorization
WithService(cfg, t, a, d) ==
    Cred(cfg.client_id, "DeviceCode", a, NoSecret, a, t + d)

\* Auth::refresh_device_code: the Auth built from the exchanged token
RefreshDeviceCode(cfg, t, a, d) ==
    Cred(cfg.client_id, "DeviceCode", a, NoSecret, a, t + d)

\* refresh_token, lines 207-208 and 219-220: only token and expires_on are
\* assigned
ApplyRefresh(self, token) ==
    [self EXCEPT !.type = token.type, !.access = token.access,
                 !.secret = token.secret, !.refresh = token.refresh,
                 !.expires_on = token.expires_on]

\* the instant t against the expiry of the credential
When(t, expires_on) ==
    IF t < expires_on THEN "before" ELSE IF t = expires_on THEN "at" ELSE "after"

Expired_Reversed(expires_on, t) == t < expires_on

\* get_token, line 230: self.expires_on < OffsetDateTime::now_utc()
Expired(expires_on, t) == expires_on < t

\* get_token, lines 234-238: the token handed out
TokenOf(self) == IF self.type = "None" THEN NoToken ELSE self.access

LockAvailable_NoMutex(r) == TRUE

\* execute_raw, line 80: self.auth.lock().await returns
LockAvailable(r) == lock = NoProc

SecretUsed_FromConfig(p) == config.client_secret

\* the secret refresh_token passes to with_client_secret (line 205-206), and
\* the one new_without_cache passes (line 86-87)
SecretUsed(p) == IF p = 0 THEN config.client_secret ELSE auth.secret

\* the positions in which a process waits for the identity provider
FlowPcs == {"cc_exchange", "dc_refresh", "dc_start", "dc_poll"}

\* Bound: the polls the identity provider answers with authorization_pending
\* before the device code expires
MaxPending == 2

\* the flow a process runs with the identity provider: why it was started
\* ("create": new_without_cache, "refresh": refresh_token, "refresh_failed":
\* with_service after "Unable to refresh token"), the poll stream of the
\* device code flow ("none", "open", or "finished": the stream has yielded its
\* last item), and the polls answered with authorization_pending
Flow(origin, stream, pending) == [origin |-> origin, stream |-> stream, pending |-> pending]

NoFlow == Flow("none", "none", 0)

GuardDropped_Kept(p) == lock

\* execute_raw, lines 79-82: the guard of the mutex lives in the block that
\* gets the token and is dropped at its end, on Ok and on Err; Backend::new
\* (process 0) takes no lock
GuardDropped(p) == IF p = 0 THEN lock ELSE NoProc

\* the flow returned the error `error`: Backend::new fails, or get_token fails
\* and the guard of the mutex is dropped
Fail(p, error) ==
    /\ pc' = [pc EXCEPT ![p] = "failed"]
    /\ err' = [err EXCEPT ![p] = error]
    /\ lock' = GuardDropped(p)
    /\ t0' = [t0 EXCEPT ![p] = 0]
    /\ UNCHANGED <<tok>>

\* the flow produced the Auth `new`: it becomes the credential (Backend::new)
\* or its token and expiry are assigned (refresh_token), then save(), then
\* get_token hands out the token
Finish(p, new) ==
    /\ auth' = IF p = 0 THEN new ELSE ApplyRefresh(auth, new)
    /\ next_token' = next_token + 1
    /\ cache_ops' = IF UsesLoginCache(config) THEN cache_ops \cup {"write"}
                    ELSE cache_ops
    /\ \/ \* save succeeds, or does nothing with ignore_login_cache
          /\ cache' = IF UsesLoginCache(config) THEN CacheOf(auth') ELSE cache
          /\ pc' = [pc EXCEPT ![p] = IF p = 0 THEN "ready" ELSE "send"]
          /\ lock' = GuardDropped(p)
          /\ tok' = IF p = 0 THEN tok ELSE [tok EXCEPT ![p] = TokenOf(auth')]
          /\ t0' = [t0 EXCEPT ![p] = 0]
          /\ UNCHANGED err
       \/ \* save fails: fs::write may have truncated the file
          /\ UsesLoginCache(config)
          /\ cache' \in {cache, CacheMalformed}
          /\ Fail(p, "Io")

\* new_without_cache, lines 86-90: the flow that creates the credential
FirstFlow(cfg) == IF cfg.client_secret # NoSecret THEN "cc_exchange" ELSE "dc_start"

\* Auth::new up to its first await on the identity provider
New ==
    /\ AuthFrame
    /\ pc[0] = "new"
    /\ UNCHANGED <<config, lock, now, tok, next_token, call_when, refresh_calls>>
    /\ \/ \* the local development endpoint
          /\ IsLocalDevelopment(config)
          /\ auth' = NewWithoutAuth(now)
          /\ pc' = [pc EXCEPT ![0] = "ready"]
          /\ UNCHANGED <<cache, t0, exchanges, err, flow, cache_ops>>
       \/ \* new_from_cache adopts the cached entry
          /\ ~IsLocalDevelopment(config) /\ UsesLoginCache(config)
          /\ Adopts(cache, config)
          /\ auth' = cache.entry
          /\ pc' = [pc EXCEPT ![0] = "ready"]
          /\ cache_ops' = cache_ops \cup {"read"}
          /\ UNCHANGED <<cache, t0, exchanges, err, flow>>
       \/ \* the client id changed and logout fails
          /\ ~IsLocalDevelopment(config) /\ UsesLoginCache(config)
          /\ cache.state = "ok"
          /\ ~SameClient(cache.entry, config)
          /\ pc' = [pc EXCEPT ![0] = "failed"]
          /\ err' = [err EXCEPT ![0] = "Io"]
          /\ cache_ops' = cache_ops \cup {"read"}
          /\ UNCHANGED <<auth, cache, t0, exchanges, flow>>
       \/ \* the client id changed: logout, then new_without_cache
          /\ ~IsLocalDevelopment(config) /\ UsesLoginCache(config)
          /\ cache.state = "ok"
          /\ ~SameClient(cache.entry, config)
          /\ cache' = CacheAbsent
          /\ cache_ops' = cache_ops \cup {"read", "delete"}
          /\ pc' = [pc EXCEPT ![0] = FirstFlow(config)]
          /\ flow' = Flow("create", "none", 0)
          /\ t0' = [t0 EXCEPT ![0] = now]
          /\ exchanges' = exchanges + 1
          /\ UNCHANGED <<auth, err>>
       \/ \* no cache is used, or from_cache fails: new_without_cache
          /\ ~IsLocalDevelopment(config)
          /\ ~UsesLoginCache(config) \/ cache.state # "ok"
          /\ cache_ops' = IF UsesLoginCache(config) THEN cache_ops \cup {"read"}
                          ELSE cache_ops
          /\ pc' = [pc EXCEPT ![0] = FirstFlow(config)]
          /\ flow' = Flow("create", "none", 0)
          /\ t0' = [t0 EXCEPT ![0] = now]
          /\ exchanges' = exchanges + 1
          /\ UNCHANGED <<auth, cache, err>>

\* Auth::get_token under the mutex, up to its first await
GetToken(r) ==
    /\ AuthFrame
    /\ pc[0] = "ready"
    /\ pc[r] = "idle"
    /\ LockAvailable(r)
    /\ call_when' = [call_when EXCEPT ![r] = When(now, auth.expires_on)]
    /\ UNCHANGED <<config, auth, cache, now, next_token, err, cache_ops>>
    /\ IF Expired(auth.expires_on, now)
       THEN /\ refresh_calls' = [refresh_calls EXCEPT ![r] = @ + 1]
            /\ IF auth.type = "None"
               THEN \* refresh_token does nothing
                    /\ tok' = [tok EXCEPT ![r] = TokenOf(auth)]
                    /\ pc' = [pc EXCEPT ![r] = "send"]
                    /\ UNCHANGED <<lock, t0, exchanges, flow>>
               ELSE /\ lock' = r
                    /\ t0' = [t0 EXCEPT ![r] = now]
                    /\ exchanges' = exchanges + 1
                    /\ IF auth.type = "ClientCredentials"
                       THEN /\ pc' = [pc EXCEPT ![r] = "cc_exchange"]
                            /\ flow' = Flow("refresh", "none", 0)
                       ELSE IF auth.client_id # config.client_id
                       THEN \* "client_id changed unexpectedly": with_service
                            /\ pc' = [pc EXCEPT ![r] = "dc_start"]
                            /\ flow' = Flow("refresh_failed", "none", 0)
                       ELSE /\ pc' = [pc EXCEPT ![r] = "dc_refresh"]
                            /\ flow' = Flow("refresh", "none", 0)
                    /\ UNCHANGED tok
       ELSE /\ tok' = [tok EXCEPT ![r] = TokenOf(auth)]
            /\ pc' = [pc EXCEPT ![r] = "send"]
            /\ UNCHANGED <<lock, t0, exchanges, refresh_calls, flow>>

\* client_credentials_flow::perform returns
CcExchange(p) ==
    /\ AuthFrame
    /\ pc[p] = "cc_exchange"
    /\ UNCHANGED <<config, now, call_when, refresh_calls, exchanges, flow>>
    /\ \/ \E d \in 0..MaxExpiresIn :
            Finish(p, WithClientSecret(config, SecretUsed(p), t0[p], next_token, d))
       \/ /\ Fail(p, "Azure")
          /\ UNCHANGED <<auth, cache, next_token, cache_ops>>

AfterRefreshError_Returned == "failed"

\* refresh_token, lines 213-218: `Err(e) => { error!(..); Self::with_service(config).await? }`
AfterRefreshError == "dc_start"

\* refresh_token::exchange returns
DcRefresh(p) ==
    /\ AuthFrame
    /\ pc[p] = "dc_refresh"
    /\ UNCHANGED <<config, now, call_when, refresh_calls>>
    /\ \/ /\ \E d \in 0..MaxExpiresIn :
                Finish(p, RefreshDeviceCode(config, t0[p], next_token, d))
          /\ UNCHANGED <<exchanges, flow>>
       \/ \* "Unable to refresh token": with_service
          /\ pc' = [pc EXCEPT ![p] = AfterRefreshError]
          /\ flow' = Flow("refresh_failed", "none", 0)
          /\ exchanges' = exchanges + 1
          /\ UNCHANGED <<auth, cache, lock, t0, tok, next_token, err, cache_ops>>

\* device_code_flow::start returns
DcStart(p) ==
    /\ AuthFrame
    /\ pc[p] = "dc_start"
    /\ UNCHANGED <<config, auth, cache, now, next_token, call_when,
                   refresh_calls, exchanges, cache_ops>>
    /\ \/ /\ pc' = [pc EXCEPT ![p] = "dc_poll"]
          /\ flow' = [flow EXCEPT !.stream = "open"]
          /\ t0' = [t0 EXCEPT ![p] = now]
          /\ UNCHANGED <<lock, tok, err>>
       \/ /\ Fail(p, "Azure")
          /\ UNCHANGED flow

StreamExhaustedError_InvalidToken == "InvalidToken"

\* with_service, lines 144-147: `.ok_or(Error::Auth("device code flow failed"))?`
StreamExhaustedError == "Auth"

\* one stream.next() of the device code flow
DcPoll(p) ==
    /\ AuthFrame
    /\ pc[p] = "dc_poll"
    /\ UNCHANGED <<config, now, call_when, refresh_calls, exchanges>>
    /\ \/ \* Some(Ok(authorization)): break
          /\ flow.stream = "open"
          /\ flow' = Flow(flow.origin, "none", 0)
          /\ \/ \E d \in 0..MaxExpiresIn :
                  Finish(p, WithService(config, t0[p], next_token, d))
             \/ \* the authorization has no refresh token
                /\ Fail(p, "InvalidToken")
                /\ UNCHANGED <<auth, cache, next_token, cache_ops>>
       \/ \* Some(Err(_)), authorization_pending: poll again
          /\ flow.stream = "open"
          /\ flow.pending < MaxPending
          /\ flow' = [flow EXCEPT !.pending = @ + 1]
          /\ UNCHANGED <<auth, cache, lock, pc, t0, tok, next_token, err, cache_ops>>
       \/ \* Some(Err(_)), the flow has expired or was declined, or the
          \* request failed: poll again, the stream has yielded its last item
          /\ flow.stream = "open"
          /\ flow' = [flow EXCEPT !.stream = "finished"]
          /\ UNCHANGED <<auth, cache, lock, pc, t0, tok, next_token, err, cache_ops>>
       \/ \* None: "device code flow failed"
          /\ flow.stream = "finished"
          /\ flow' = Flow(flow.origin, "none", 0)
          /\ Fail(p, StreamExhaustedError)
          /\ UNCHANGED <<auth, cache, next_token, cache_ops>>

\* execute_raw, lines 83-105: the request is sent and answered, and the call
\* is over
Send(r) ==
    /\ AuthFrame
    /\ pc[r] = "send"
    /\ pc' = [pc EXCEPT ![r] = "done"]
    /\ tok' = [tok EXCEPT ![r] = -1]
    /\ call_when' = [call_when EXCEPT ![r] = "never"]
    /\ refresh_calls' = [refresh_calls EXCEPT ![r] = 0]
    /\ UNCHANGED <<config, auth, cache, lock, now, t0, next_token,
                   exchanges, err, flow, cache_ops>>

\* time passes
Tick ==
    /\ AuthFrame
    /\ now < MaxTime
    /\ now' = now + 1
    /\ UNCHANGED <<config, auth, cache, lock, pc, t0, tok, next_token,
                   call_when, refresh_calls, exchanges, err, flow, cache_ops>>

AuthNext ==
    \/ New
    \/ \E r \in Requests : GetToken(r)
    \/ \E p \in Procs : CcExchange(p)
    \/ \E p \in Procs : DcRefresh(p)
    \/ \E p \in Procs : DcStart(p)
    \/ \E p \in Procs : DcPoll(p)
    \/ \E r \in Requests : Send(r)
    \/ Tick

(***************************************************************************)
(* List streams: images_list, webhooks_list, webhooks_logs                 *)
(*                                                                         *)
(* The three generators are the same loop over a different path and        *)
(* response type.  The service holds a fixed list of elements 1..N cut     *)
(* into pages; every page but the last carries the cursor of the next.     *)
(***************************************************************************)

\* Bounds
MaxPages == 3
MaxPageSize == 2
MaxListRequests == 4

\* Option::None of `continuation`
NoCursor == "<none>"

\* Some(String::new()): a cursor that is present and empty
EmptyCursor == ""

\* the opaque cursors the service hands out: Cursors[i] resumes at page i
Cursors == <<"cursor-1", "cursor-2", "cursor-3", "cursor-4", "cursor-5", "cursor-6">>

ListKinds == {"images", "webhooks", "webhook_logs"}

\* a request object with no field but the cursor (WebhooksListRequest,
\* WebhookLogListRequest), or an ImageList with no filter set
NoFilters == [state |-> "<none>", include_samples |-> FALSE]

\* ImageList: the fields other than `continuation`
ImageFilters ==
    {NoFilters,
     [state |-> "Completed", include_samples |-> FALSE],
     [state |-> "<none>", include_samples |-> TRUE]}

\* the request objects a stream of this kind can be created with
ListFilters(kind) == IF kind = "images" THEN ImageFilters ELSE {NoFilters}

\* the path each stream requests
ListPath(kind) ==
    IF kind = "images" THEN "/api/images"
    ELSE IF kind = "webhooks" THEN "/api/webhooks"
    ELSE "/api/webhooks/{webhook_id}/logs"

\* ImagesListResponse, WebhooksListResponse, WebhookLogListResponse
Page(items, continuation) == [items |-> items, continuation |-> continuation]

EmptyPage == Page(<<>>, NoCursor)

RECURSIVE SumTo(_, _)
\* sizes[1] + ... + sizes[i]
SumTo(sizes, i) == IF i = 0 THEN 0 ELSE sizes[i] + SumTo(sizes, i - 1)

\* the service's pages for the page sizes `sizes`: the elements 1..N in order
ServerPages(sizes) ==
    [i \in 1..Len(sizes) |->
        Page([k \in 1..sizes[i] |-> SumTo(sizes, i - 1) + k],
             IF i < Len(sizes) THEN Cursors[i + 1] ELSE NoCursor)]

\* the page the service returns for a request carrying `cursor`
ServerPage(pages, cursor) ==
    IF cursor \in {NoCursor, EmptyCursor} THEN pages[1]
    ELSE pages[CHOOSE i \in 1..Len(pages) : Cursors[i] = cursor]

RECURSIVE Concat(_, _)
\* the items of pages[1..i], in order
Concat(pages, i) ==
    IF i = 0 THEN <<>> ELSE Concat(pages, i - 1) \o pages[i].items

\* all elements of the service, in its order
ServerElements(pages) == Concat(pages, Len(pages))

ListInit ==
    /\ ls_kind \in ListKinds
    /\ \E p \in 1..MaxPages : \E sizes \in [1..p -> 0..MaxPageSize] :
          ls_pages = ServerPages(sizes)
    /\ ls_pc = "created"
    /\ ls_filter \in ListFilters(ls_kind)
    /\ ls_continuation = NoCursor
    /\ ls_result = EmptyPage
    /\ ls_j = 0
    /\ ls_yielded = <<>>
    /\ ls_requests = <<>>

\* the page sent last carries `cursor`
WithLastCursor(pages, cursor) ==
    [pages EXCEPT ![Len(pages)] = Page(pages[Len(pages)].items, cursor)]

\* a service whose last page carries the empty cursor
ListInitEmptyCursor ==
    /\ ls_kind \in ListKinds
    /\ \E p \in 1..MaxPages : \E sizes \in [1..p -> 0..MaxPageSize] :
          ls_pages = WithLastCursor(ServerPages(sizes), EmptyCursor)
    /\ ls_pc = "created"
    /\ ls_filter \in ListFilters(ls_kind)
    /\ ls_continuation = NoCursor
    /\ ls_result = EmptyPage
    /\ ls_j = 0
    /\ ls_yielded = <<>>
    /\ ls_requests = <<>>

ListParked ==
    /\ ls_kind = "images"
    /\ ls_pages = <<>>
    /\ ls_pc = "parked"
    /\ ls_filter = NoFilters
    /\ ls_continuation = NoCursor
    /\ ls_result = EmptyPage
    /\ ls_j = 0
    /\ ls_yielded = <<>>
    /\ ls_requests = <<>>

StreamEnds_Never(result) == FALSE

StreamEnds_OnEmptyPage(result) ==
    result.continuation = NoCursor \/ result.items = <<>>

\* `if image_list.continuation.is_none() { break; }`, the continuation
\* being the one just copied from `result`
StreamEnds(result) == result.continuation = NoCursor

NextContinuation_Kept(request_continuation, result) == request_continuation

\* `image_list.continuation = result.continuation;`
NextContinuation(request_continuation, result) == result.continuation

ListRequest_Unfiltered(kind, filter, continuation) ==
    [path |-> ListPath(kind),
     filter |-> IF continuation = NoCursor THEN filter ELSE NoFilters,
     continuation |-> continuation]

\* the request sent for the request object: its path and its query, which is
\* the whole object serialized
ListRequest(kind, filter, continuation) ==
    [path |-> ListPath(kind), filter |-> filter, continuation |-> continuation]

\* Box::pin(try_stream! { .. }) runs nothing of its block when it is built:
\* the block starts at the consumer's first poll of the stream
ListPoll ==
    /\ ListFrame
    /\ ls_pc = "created"
    /\ ls_pc' = "request"
    /\ UNCHANGED <<ls_kind, ls_pages, ls_filter, ls_continuation, ls_result, ls_j,
                   ls_yielded, ls_requests>>

\* self.backend.get(path, Some(&request)).await?
ListFetch ==
    /\ ListFrame
    /\ ls_pc = "request"
    /\ Len(ls_requests) < MaxListRequests
    /\ ls_requests' = Append(ls_requests,
                             ListRequest(ls_kind, ls_filter, ls_continuation))
    /\ \/ /\ ls_result' = ServerPage(ls_pages, ls_continuation)
          /\ ls_j' = 0
          /\ ls_pc' = "yield"
       \/ \* the request fails: the stream yields the error and ends
          /\ ls_pc' = "failed"
          /\ UNCHANGED <<ls_result, ls_j>>
    /\ UNCHANGED <<ls_kind, ls_pages, ls_filter, ls_continuation, ls_yielded>>

\* `yield image;` for the next element of the page
ListYield ==
    /\ ListFrame
    /\ ls_pc = "yield"
    /\ ls_j < Len(ls_result.items)
    /\ ls_j' = ls_j + 1
    /\ ls_yielded' = Append(ls_yielded, ls_result.items[ls_j + 1])
    /\ UNCHANGED <<ls_kind, ls_pages, ls_pc, ls_filter, ls_continuation, ls_result,
                   ls_requests>>

\* after the for loop: copy the cursor, break or loop
ListAdvance ==
    /\ ListFrame
    /\ ls_pc = "yield"
    /\ ls_j = Len(ls_result.items)
    /\ ls_continuation' = NextContinuation(ls_continuation, ls_result)
    /\ ls_pc' = IF StreamEnds([ls_result EXCEPT !.continuation = ls_continuation'])
                THEN "done" ELSE "request"
    /\ UNCHANGED <<ls_kind, ls_pages, ls_filter, ls_result, ls_j, ls_yielded,
                   ls_requests>>

\* the consumer drops the stream before its end
ListDrop ==
    /\ ListFrame
    /\ ls_pc \in {"created", "request", "yield"}
    /\ ls_pc' = "dropped"
    /\ UNCHANGED <<ls_kind, ls_pages, ls_filter, ls_continuation, ls_result, ls_j,
                   ls_yielded, ls_requests>>

ListNext ==
    \/ ListPoll
    \/ ListFetch
    \/ ListYield
    \/ ListAdvance
    \/ ListDrop

(***************************************************************************)
(* images_monitor                                                          *)
(*                                                                         *)
(* Each poll (images_get) returns a snapshot the service chooses: any      *)
(* state, with or without an error text.                                   *)
(***************************************************************************)

\* Bound: the polls one run of the monitor makes
MaxPolls == 4

ImageStates == {"WaitingForUpload", "ToQueue", "Queued", "Running", "Finalizing",
                "Completed", "Failed", "Deleting"}

\* Option::None of Image.error
NoError == "<none>"

\* Image, as far as the monitor reads it
Snapshot(state, error) == [state |-> state, error |-> error]

\* what a poll may return
Snapshots ==
    {Snapshot(st, NoError) : st \in ImageStates}
    \cup {Snapshot(st, "boom") : st \in {"Failed", "Queued"}}

NoImage == Snapshot("<none>", NoError)

MonitorInit ==
    /\ mon_pc = "first"
    /\ image = NoImage
    /\ prev_state = "<none>"
    /\ mon_observed = <<>>
    /\ mon_notices = <<>>
    /\ mon_result = [kind |-> "pending", image |-> NoImage, message |-> ""]
    /\ mon_polls = <<>>

MonitorParked ==
    /\ mon_pc = "parked"
    /\ image = NoImage
    /\ prev_state = "<none>"
    /\ mon_observed = <<>>
    /\ mon_notices = <<>>
    /\ mon_result = [kind |-> "pending", image |-> NoImage, message |-> ""]
    /\ mon_polls = <<>>

\* the errors of images_get: of the request, the terms of use, the response
\* that cannot be deserialized
PollErrors == {"Request", "Eula", "Serialization"}

AfterPollError_Retry == "sleep"

\* `self.images_get(image_id).await?`: the error is returned
AfterPollError == "returned"

ShouldNotify_Always(state, prev) == TRUE

\* `if image.state != prev_state`
ShouldNotify(state, prev) == state # prev

AnalysisFailedMessage_Generic(error) == "unknown error"

\* lines 541-544: the message of Error::AnalysisFailed
AnalysisFailedMessage(error) == IF error # NoError THEN error ELSE "unknown error"

\* the notice after poll number `poll`
Notice(poll, text) == [poll |-> poll, text |-> text]

\* lines 526-532: the first images_get
MonitorFirst ==
    /\ MonitorFrame
    /\ mon_pc = "first"
    /\ \/ \E snap \in Snapshots :
            /\ image' = snap
            /\ mon_observed' = Append(mon_observed, snap)
            /\ mon_polls' = Append(mon_polls, "ok")
            /\ IF snap.state = "Completed"
               THEN /\ mon_pc' = "returned"
                    /\ mon_result' = [kind |-> "ok", image |-> snap, message |-> ""]
                    /\ UNCHANGED prev_state
               ELSE /\ mon_pc' = "loop"
                    /\ prev_state' = "Completed"
                    /\ UNCHANGED mon_result
       \/ \* images_get fails
          /\ \E e \in PollErrors :
                /\ mon_polls' = Append(mon_polls, e)
                /\ mon_result' = [kind |-> "request_err", image |-> NoImage, message |-> e]
          /\ mon_pc' = AfterPollError
          /\ UNCHANGED <<image, prev_state, mon_observed>>
    /\ UNCHANGED mon_notices

\* lines 534-555: the top of the loop
MonitorInspect ==
    /\ MonitorFrame
    /\ mon_pc = "loop"
    /\ IF ShouldNotify(image.state, prev_state)
       THEN IF image.state = "Completed"
            THEN /\ mon_notices' = Append(mon_notices,
                                          Notice(Len(mon_observed), "analysis completed"))
                 /\ mon_pc' = "returned"
                 /\ mon_result' = [kind |-> "ok", image |-> image, message |-> ""]
            ELSE IF image.state = "Failed"
            THEN /\ mon_pc' = "returned"
                 /\ mon_result' = [kind |-> "analysis_failed", image |-> NoImage,
                                   message |-> AnalysisFailedMessage(image.error)]
                 /\ UNCHANGED mon_notices
            ELSE /\ mon_notices' = Append(mon_notices,
                                          Notice(Len(mon_observed), image.state))
                 /\ mon_pc' = "sleep"
                 /\ UNCHANGED mon_result
       ELSE /\ mon_pc' = "sleep"
            /\ UNCHANGED <<mon_notices, mon_result>>
    /\ UNCHANGED <<image, prev_state, mon_observed, mon_polls>>

\* lines 556-559: sleep, then the next images_get
MonitorPoll ==
    /\ MonitorFrame
    /\ mon_pc = "sleep"
    /\ Len(mon_polls) < MaxPolls
    /\ prev_state' = image.state
    /\ \/ \E snap \in Snapshots :
            /\ image' = snap
            /\ mon_observed' = Append(mon_observed, snap)
            /\ mon_polls' = Append(mon_polls, "ok")
            /\ mon_pc' = "loop"
            /\ UNCHANGED mon_result
       \/ \* images_get fails
          /\ \E e \in PollErrors :
                /\ mon_polls' = Append(mon_polls, e)
                /\ mon_result' = [kind |-> "request_err", image |-> NoImage, message |-> e]
          /\ mon_pc' = AfterPollError
          /\ UNCHANGED <<image, mon_observed>>
    /\ UNCHANGED mon_notices

MonitorNext ==
    \/ MonitorFirst
    \/ MonitorInspect
    \/ MonitorPoll

(***************************************************************************)
(* Backend::execute_raw                                                    *)
(*                                                                         *)
(* One call: the request is built from the arguments and the token of      *)
(* get_token, sent, and the response is turned into the result.  A body is *)
(* a sequence of bytes, a text a sequence of code points.                  *)
(***************************************************************************)

\* Bound: the length of a response body
MaxBodyLen == 2

\* reqwest::StatusCode::UNAVAILABLE_FOR_LEGAL_REASONS
UNAVAILABLE_FOR_LEGAL_REASONS == 451

\* U+FFFD REPLACEMENT CHARACTER
REPLACEMENT_CHARACTER == 65533

\* the bytes a body is made of: "a", "b", and 0xFF, which no UTF-8 text holds
BodyBytes == {97, 98, 255}

\* the response bodies tried
Bodies == UNION {[1..n -> BodyBytes] : n \in 0..MaxBodyLen}

\* the status codes the service answers with
Statuses == {200, 204, 302, 400, 404, 450, 451, 452, 500, 503}

Methods == {"GET", "POST", "PATCH", "DELETE"}

\* Option::None of `query`
NoQuery == "<none>"

\* serde_urlencoded::to_string(&query) of the queries tried
QueryStrings == {NoQuery, "", "continuation=cursor-2"}

\* String::from_utf8_lossy(&response_body), for bodies over BodyBytes: an
\* ASCII byte is its code point, each 0xFF is replaced by U+FFFD
FromUtf8Lossy(bytes) ==
    [i \in 1..Len(bytes) |-> IF bytes[i] < 128 THEN bytes[i] ELSE REPLACEMENT_CHARACTER]

RECURSIVE Utf8Encode(_)
\* the UTF-8 bytes of a text made of ASCII and U+FFFD (EF BF BD)
Utf8Encode(text) ==
    IF text = <<>> THEN <<>>
    ELSE (IF Head(text) < 128 THEN <<Head(text)>> ELSE <<239, 191, 189>>)
         \o Utf8Encode(Tail(text))

IsLegalReasons_Never(status) == FALSE

\* `res.status() == reqwest::StatusCode::UNAVAILABLE_FOR_LEGAL_REASONS`
IsLegalReasons(status) == status = UNAVAILABLE_FOR_LEGAL_REASONS

\* res.error_for_status(): a client or a server error status is an Err
IsErrorStatus(status) == status >= 400 /\ status < 600

NoResponse == [status |-> 0, body |-> <<>>]

NoRequest == [method |-> "", query |-> NoQuery, authorization |-> NoToken,
              json |-> FALSE, content_length_zero |-> FALSE]

\* Result<Bytes>: the variant, and what it carries (the bytes, the terms
\* text, or the status of the response)
ExecResult(kind, payload, status) == [kind |-> kind, payload |-> payload, status |-> status]

ExecPending == ExecResult("pending", <<>>, 0)

ExecInit ==
    /\ ex_pc = "build"
    /\ ex_call \in [method : Methods, query : QueryStrings, body : BOOLEAN,
                    token : {NoToken, 1}]
    /\ ex_request = NoRequest
    /\ ex_response = NoResponse
    /\ ex_result = ExecPending

ExecParked ==
    /\ ex_pc = "parked"
    /\ ex_call = [method |-> "GET", query |-> NoQuery, body |-> FALSE, token |-> NoToken]
    /\ ex_request = NoRequest
    /\ ex_response = NoResponse
    /\ ex_result = ExecPending

\* lines 66-91: the url, the token, the headers
ExecBuild ==
    /\ ExecFrame
    /\ ex_pc = "build"
    /\ \/ /\ ex_request' =
                [method |-> ex_call.method,
                 query |-> IF ex_call.query = "" THEN NoQuery ELSE ex_call.query,
                 authorization |-> ex_call.token,
                 json |-> ex_call.body,
                 content_length_zero |-> ~ex_call.body]
          /\ ex_pc' = "send"
          /\ UNCHANGED ex_result
       \/ \* serde_urlencoded::to_string fails
          /\ ex_call.query # NoQuery
          /\ ex_pc' = "returned"
          /\ ex_result' = ExecResult("UrlSerialization", <<>>, 0)
          /\ UNCHANGED ex_request
       \/ \* get_token fails
          /\ ex_pc' = "returned"
          /\ ex_result' = ExecResult("Auth", <<>>, 0)
          /\ UNCHANGED ex_request
    /\ UNCHANGED <<ex_call, ex_response>>

\* line 93: builder.send().await?
ExecSend ==
    /\ ExecFrame
    /\ ex_pc = "send"
    /\ \/ \E status \in Statuses, body \in Bodies :
            /\ ex_response' = [status |-> status, body |-> body]
            /\ ex_pc' = "response"
            /\ UNCHANGED ex_result
       \/ \* no response
          /\ ex_pc' = "returned"
          /\ ex_result' = ExecResult("Request", <<>>, 0)
          /\ UNCHANGED ex_response
    /\ UNCHANGED <<ex_call, ex_request>>

\* lines 95-104: the response becomes the result
ExecRespond ==
    /\ ExecFrame
    /\ ex_pc = "response"
    /\ ex_pc' = "returned"
    /\ IF IsLegalReasons(ex_response.status)
       THEN \/ ex_result' = ExecResult("Eula", FromUtf8Lossy(ex_response.body),
                                       ex_response.status)
            \/ \* res.bytes() fails
               ex_result' = ExecResult("Request", <<>>, 0)
       ELSE IF IsErrorStatus(ex_response.status)
       THEN ex_result' = ExecResult("Request", <<>>, ex_response.status)
       ELSE \/ ex_result' = ExecResult("Ok", ex_response.body, ex_response.status)
            \/ \* res.bytes() fails
               ex_result' = ExecResult("Request", <<>>, 0)
    /\ UNCHANGED <<ex_call, ex_request, ex_response>>

ExecNext ==
    \/ ExecBuild
    \/ ExecSend
    \/ ExecRespond

(***************************************************************************)
(* blob_upload and blob_download, with contents                            *)
(*                                                                         *)
(* The contents of a file, a block or a blob are a sequence of runs        *)
(* [len, byte]: `len` times the byte `byte`, no run empty and no two       *)
(* adjacent runs of the same byte, so that equal contents are equal        *)
(* values.  Files of several blocks are tens of megabytes; their byte      *)
(* counts fit an Int here.                                                 *)
(***************************************************************************)

\* Bound: the runs a source file is made of
MaxRuns == 3

Run(len, byte) == [len |-> len, byte |-> byte]

RECURSIVE ByteLen(_)
\* the number of bytes of `data`
ByteLen(data) == IF data = <<>> THEN 0 ELSE Head(data).len + ByteLen(Tail(data))

RECURSIVE TakeBytes(_, _)
\* the first n bytes of `data`, or all of it
TakeBytes(data, n) ==
    IF n = 0 \/ data = <<>> THEN <<>>
    ELSE IF Head(data).len <= n
         THEN <<Head(data)>> \o TakeBytes(Tail(data), n - Head(data).len)
         ELSE <<Run(n, Head(data).byte)>>

RECURSIVE DropBytes(_, _)
\* `data` without its first n bytes
DropBytes(data, n) ==
    IF n = 0 \/ data = <<>> THEN data
    ELSE IF Head(data).len <= n
         THEN DropBytes(Tail(data), n - Head(data).len)
         ELSE <<Run(Head(data).len - n, Head(data).byte)>> \o Tail(data)

\* the bytes of x followed by the bytes of y
CatBytes(x, y) ==
    IF x = <<>> THEN y
    ELSE IF y = <<>> THEN x
    ELSE IF x[Len(x)].byte = Head(y).byte
         THEN SubSeq(x, 1, Len(x) - 1)
              \o <<Run(x[Len(x)].len + Head(y).len, Head(y).byte)>> \o Tail(y)
         ELSE x \o y

\* the lengths of the runs of the source files tried
RunLengths == {1, MIN_BLOCK_SIZE - 1, MIN_BLOCK_SIZE, MIN_BLOCK_SIZE + 1}

\* a file of the runs `lens`, of the bytes "a" and "b" in turn
FileOf(lens, first) ==
    [k \in 1..Len(lens) |-> Run(lens[k], IF k % 2 = 1 THEN first ELSE 195 - first)]

\* the source files tried: up to MaxRuns runs, and one file of 17 blocks
SourceFiles ==
    {FileOf(lens, first) :
        lens \in UNION {[1..n -> RunLengths] : n \in 0..MaxRuns}, first \in {97, 98}}
    \cup {<<Run(16 * MIN_BLOCK_SIZE + 1, 97)>>}

\* the sizes of the pieces in which the service delivers a blob
ChunkSizes == {4 * 1024 * 1024, 16 * 1024 * 1024}

RECURSIVE HexOf(_)
\* the hexadecimal digits of i, most significant first, each by its value
HexOf(i) == IF i < 16 THEN <<i>> ELSE HexOf(i \div 16) \o <<i % 16>>

\* `digits` padded with zeros on the left to the width w
ZeroPad(digits, w) ==
    IF Len(digits) >= w THEN digits
    ELSE [k \in 1..w |-> IF k <= w - Len(digits) THEN 0 ELSE digits[k - (w - Len(digits))]]

\* format!("{i:032x}")
BlockId(i) == ZeroPad(HexOf(i), 32)

PushId_Front(block_list, id) == <<id>> \o block_list

\* block_list.push(id)
PushId(block_list, id) == Append(block_list, id)

\* the service, put_block: the block is staged under its id, in place of a
\* staged block of the same id
PutBlock(uncommitted, id, data) ==
    SelectSeq(uncommitted, LAMBDA b : b.id # id) \o <<[id |-> id, data |-> data]>>

\* the staged block of the id
StagedBlock(uncommitted, id) ==
    uncommitted[CHOOSE k \in 1..Len(uncommitted) : uncommitted[k].id = id]

RECURSIVE PutBlockList(_, _)
\* the service, put_block_list: the blob is the staged blocks of the listed
\* ids, in the order of the list
PutBlockList(uncommitted, ids) ==
    IF ids = <<>> THEN <<>>
    ELSE CatBytes(StagedBlock(uncommitted, Head(ids)).data,
                  PutBlockList(uncommitted, Tail(ids)))

WriteAll_AtStart(file, value) == value

\* file.write_all(&value): the bytes go to the end of what was written
WriteAll(file, value) == CatBytes(file, value)

\* a file or a blob that does not exist
Absent == [exists |-> FALSE, data |-> <<>>]

Present(data) == [exists |-> TRUE, data |-> data]

\* Result<()> of blob_upload and of blob_download
BlobResult(upload, download) == [upload |-> upload, download |-> download]

BlobInit ==
    /\ bl_pc = "upload_start"
    /\ bl_source \in SourceFiles
    /\ bl_handle = bl_source
    /\ bl_block_size = 0
    /\ bl_i = 0
    /\ bl_block_list = <<>>
    /\ bl_uncommitted = <<>>
    /\ bl_commits = <<>>
    /\ bl_blob = Absent
    /\ bl_stream = <<>>
    /\ bl_dest \in {Absent, Present(<<Run(3, 122)>>)}
    /\ bl_result = BlobResult("pending", "pending")

BlobParked ==
    /\ bl_pc = "parked"
    /\ bl_source = <<>>
    /\ bl_handle = <<>>
    /\ bl_block_size = 0
    /\ bl_i = 0
    /\ bl_block_list = <<>>
    /\ bl_uncommitted = <<>>
    /\ bl_commits = <<>>
    /\ bl_blob = Absent
    /\ bl_stream = <<>>
    /\ bl_dest = Absent
    /\ bl_result = BlobResult("pending", "pending")

\* blob_upload returns the error `kind`
BlobUploadErr(kind) ==
    /\ bl_pc' = "upload_returned"
    /\ bl_result' = [bl_result EXCEPT !.upload = kind]

\* blob_upload, lines 17-35
BlobUploadStart ==
    /\ BlobFrame
    /\ bl_pc = "upload_start"
    /\ \/ /\ bl_block_size' = BlockSize(U64(ByteLen(bl_source)))
          /\ bl_pc' = "upload_loop"
          /\ UNCHANGED bl_result
       \/ \* metadata(), try_into() or BlobClient::from_sas_url fails
          /\ BlobUploadErr("start")
          /\ UNCHANGED bl_block_size
    /\ UNCHANGED <<bl_source, bl_handle, bl_i, bl_block_list, bl_uncommitted,
                   bl_commits, bl_blob, bl_stream, bl_dest>>

\* blob_upload, lines 36-54: one iteration of the loop
BlobUploadBlock ==
    /\ BlobFrame
    /\ bl_pc = "upload_loop"
    /\ LET data == TakeBytes(bl_handle, bl_block_size)
           read_data == ByteLen(data)
           id == BlockId(bl_i)
       IN \/ \* reading the block fails
             /\ BlobUploadErr("read")
             /\ UNCHANGED <<bl_handle, bl_i, bl_block_list, bl_uncommitted>>
          \/ \* read_data == 0: break
             /\ read_data = 0
             /\ bl_pc' = "upload_commit"
             /\ UNCHANGED <<bl_handle, bl_i, bl_block_list, bl_uncommitted, bl_result>>
          \/ \* the block is staged
             /\ read_data # 0
             /\ bl_handle' = DropBytes(bl_handle, read_data)
             /\ bl_uncommitted' = PutBlock(bl_uncommitted, id, data)
             /\ bl_block_list' = PushId(bl_block_list, id)
             /\ bl_i' = bl_i + 1
             /\ UNCHANGED <<bl_pc, bl_result>>
          \/ \* put_block fails, the block staged by the service or not
             /\ read_data # 0
             /\ bl_handle' = DropBytes(bl_handle, read_data)
             /\ bl_uncommitted' \in {bl_uncommitted, PutBlock(bl_uncommitted, id, data)}
             /\ BlobUploadErr("put_block")
             /\ UNCHANGED <<bl_i, bl_block_list>>
    /\ UNCHANGED <<bl_source, bl_block_size, bl_commits, bl_blob, bl_stream, bl_dest>>

\* blob_upload, lines 56-65: put_block_list
BlobUploadCommit ==
    /\ BlobFrame
    /\ bl_pc = "upload_commit"
    /\ bl_commits' = Append(bl_commits, bl_block_list)
    /\ \/ /\ bl_blob' = Present(PutBlockList(bl_uncommitted, bl_block_list))
          /\ bl_uncommitted' = <<>>
          /\ bl_pc' = "upload_returned"
          /\ bl_result' = [bl_result EXCEPT !.upload = "Ok"]
       \/ \* put_block_list fails
          /\ BlobUploadErr("put_block_list")
          /\ UNCHANGED <<bl_blob, bl_uncommitted>>
    /\ UNCHANGED <<bl_source, bl_handle, bl_block_size, bl_i, bl_block_list,
                   bl_stream, bl_dest>>

\* blob_download returns an error
BlobDownloadErr ==
    /\ bl_pc' = "download_returned"
    /\ bl_result' = [bl_result EXCEPT !.download = "Err"]

\* blob_download, lines 99-121: the properties of the blob, the stream,
\* File::create
BlobDownloadStart ==
    /\ BlobFrame
    /\ bl_pc = "upload_returned"
    /\ \/ /\ bl_blob.exists
          /\ bl_stream' = bl_blob.data
          /\ bl_dest' = Present(<<>>)
          /\ bl_pc' = "download_stream"
          /\ UNCHANGED bl_result
       \/ \* there is no blob, or get_properties or File::create fails
          /\ BlobDownloadErr
          /\ UNCHANGED <<bl_stream, bl_dest>>
    /\ UNCHANGED <<bl_source, bl_handle, bl_block_size, bl_i, bl_block_list,
                   bl_uncommitted, bl_commits, bl_blob>>

\* blob_download, lines 122-132: the next `value` of the stream
BlobDownloadValue ==
    /\ BlobFrame
    /\ bl_pc = "download_stream"
    /\ \/ /\ bl_stream # <<>>
          /\ \E n \in ChunkSizes :
                LET value == TakeBytes(bl_stream, n) IN
                /\ bl_dest' = Present(WriteAll(bl_dest.data, value))
                /\ bl_stream' = DropBytes(bl_stream, ByteLen(value))
          /\ UNCHANGED <<bl_pc, bl_result>>
       \/ \* the stream is at its end
          /\ bl_stream = <<>>
          /\ bl_pc' = "download_returned"
          /\ bl_result' = [bl_result EXCEPT !.download = "Ok"]
          /\ UNCHANGED <<bl_stream, bl_dest>>
       \/ \* the chunk or the value is an error, or write_all fails
          /\ BlobDownloadErr
          /\ UNCHANGED <<bl_stream, bl_dest>>
    /\ UNCHANGED <<bl_source, bl_handle, bl_block_size, bl_i, bl_block_list,
                   bl_uncommitted, bl_commits, bl_blob>>

BlobNext ==
    \/ BlobUploadStart
    \/ BlobUploadBlock
    \/ BlobUploadCommit
    \/ BlobDownloadStart
    \/ BlobDownloadValue

(***************************************************************************)
(* compare, the comparison of the HMAC strings of the webhook receiver     *)
(***************************************************************************)

\* Bound: the length of the strings compared
MaxStrLen == 3

\* the bytes the strings are made of: "a", "b", "d"
StrBytes == {97, 98, 100}

Strs == UNION {[1..n -> StrBytes] : n \in 0..MaxStrLen}

RECURSIVE BitXor(_, _)
\* x ^ y
BitXor(x, y) ==
    IF x = 0 /\ y = 0 THEN 0
    ELSE (((x % 2) + (y % 2)) % 2) + 2 * BitXor(x \div 2, y \div 2)

RECURSIVE BitAnd(_, _)
\* x & y
BitAnd(x, y) ==
    IF x = 0 \/ y = 0 THEN 0
    ELSE ((x % 2) * (y % 2)) + 2 * BitAnd(x \div 2, y \div 2)

RECURSIVE BitOr(_, _)
\* x | y
BitOr(x, y) ==
    IF x = 0 /\ y = 0 THEN 0
    ELSE Max(x % 2, y % 2) + 2 * BitOr(x \div 2, y \div 2)

Accumulate_And(result, x, y) == BitAnd(result, BitXor(x, y))

\* `result |= x ^ y;`
Accumulate(result, x, y) == BitOr(result, BitXor(x, y))

\* the length of a.bytes().zip(b.bytes())
ZipLen(a, b) == IF Len(a) <= Len(b) THEN Len(a) ELSE Len(b)

CompareInit ==
    /\ cmp_pc = "start"
    /\ cmp_a \in Strs
    /\ cmp_b \in Strs
    /\ cmp_k = 0
    /\ cmp_result = 0
    /\ cmp_ret = FALSE

CompareParked ==
    /\ cmp_pc = "parked"
    /\ cmp_a = <<>>
    /\ cmp_b = <<>>
    /\ cmp_k = 0
    /\ cmp_result = 0
    /\ cmp_ret = FALSE

\* lines 85-89: the test of the lengths, `let mut result = 0;`
CompareStart ==
    /\ CompareFrame
    /\ cmp_pc = "start"
    /\ IF Len(cmp_a) # Len(cmp_b)
       THEN /\ cmp_pc' = "returned"
            /\ cmp_ret' = FALSE
       ELSE /\ cmp_pc' = "loop"
            /\ UNCHANGED cmp_ret
    /\ UNCHANGED <<cmp_a, cmp_b, cmp_k, cmp_result>>

\* lines 91-93: one iteration of the loop
CompareStep ==
    /\ CompareFrame
    /\ cmp_pc = "loop"
    /\ cmp_k < ZipLen(cmp_a, cmp_b)
    /\ cmp_result' = Accumulate(cmp_result, cmp_a[cmp_k + 1], cmp_b[cmp_k + 1])
    /\ cmp_k' = cmp_k + 1
    /\ UNCHANGED <<cmp_pc, cmp_a, cmp_b, cmp_ret>>

\* line 94: `result == 0`
CompareReturn ==
    /\ CompareFrame
    /\ cmp_pc = "loop"
    /\ cmp_k = ZipLen(cmp_a, cmp_b)
    /\ cmp_pc' = "returned"
    /\ cmp_ret' = (cmp_result = 0)
    /\ UNCHANGED <<cmp_a, cmp_b, cmp_k, cmp_result>>

CompareNext ==
    \/ CompareStart
    \/ CompareStep
    \/ CompareReturn

(***************************************************************************)
(* The configuration commands: Config::save and Config::load_or_default    *)
(*                                                                         *)
(* `freta config reset` saves Config::new(), `freta config get` runs       *)
(* load_or_default, `freta config update` runs load_or_default, changes    *)
(* the fields given on the command line and saves.  An action ends where   *)
(* the code awaits the file system.                                        *)
(***************************************************************************)

\* an argument of `config update` that was not given (Option::None)
NoArg == "<not given>"

\* the address of `--api-url` when it was not given
NoUrlArg == UrlText(NoArg, "", "", "")

\* Config::new; ignore_login_cache is false unless it is set
ConfigNew ==
    [api_url |-> DefaultUrl, client_id |-> "app", client_secret |-> NoSecret,
     ignore_login_cache |-> FALSE]

\* the value of cf_config while the command holds no Config
NoConfig == [ConfigNew EXCEPT !.client_id = "<no config>"]

\* the addresses a configuration file of the model can hold
KnownUrls == {LocalUrl, DefaultUrl}

\* Url::parse on a serialized address
UrlFromString(text) == CHOOSE u \in KnownUrls : UrlToString(u) = text

\* serde_json::to_string_pretty(self): the address is written as its string
SerializeConfig(cfg) == [cfg EXCEPT !.api_url = UrlToString(cfg.api_url)]

\* serde_json::from_str(&contents)
DeserializeConfig(text) == [text EXCEPT !.api_url = UrlFromString(text.api_url)]

\* the file cli.config: absent, not parseable, or a serialized Config
ConfigFileAbsent == [state |-> "absent", text |-> SerializeConfig(NoConfig)]

ConfigFileMalformed == [state |-> "malformed", text |-> SerializeConfig(NoConfig)]

ConfigFileOf(cfg) == [state |-> "ok", text |-> SerializeConfig(cfg)]

ConfigFiles ==
    {ConfigFileAbsent, ConfigFileMalformed} \cup {ConfigFileOf(cfg) : cfg \in Configs}

\* path.exists()
Exists(file) == file.state # "absent"

\* the arguments of `config update`, as clap hands them over
UpdateArgs ==
    [api_url : {NoUrlArg, LocalUrl}, client_id : {NoArg, "other"},
     client_secret : {NoArg, "", "s1"}, ignore_login_cache : {NoArg, "true"}]

\* `config update`: the fields given replace those of the configuration, an
\* empty client secret removes it
ApplyUpdate(cfg, args) ==
    [api_url |-> IF args.api_url = NoUrlArg THEN cfg.api_url ELSE args.api_url,
     client_id |-> IF args.client_id = NoArg THEN cfg.client_id ELSE args.client_id,
     client_secret |-> IF args.client_secret = NoArg THEN cfg.client_secret
                       ELSE IF args.client_secret = "" THEN NoSecret
                       ELSE args.client_secret,
     ignore_login_cache |-> IF args.ignore_login_cache = NoArg
                            THEN cfg.ignore_login_cache
                            ELSE args.ignore_login_cache = "true"]

Logout_Keeps(file) == file

\* Auth::logout: login.cache after `if path.exists() { remove_file }` went well
Logout(file) == IF Exists(file) THEN CacheAbsent ELSE file

ConfigInit ==
    /\ cf_pc = "start"
    /\ cf_op \in {"reset", "get", "update"}
    /\ cf_phase = "final"
    /\ cf_home \in BOOLEAN
    /\ cf_config_file \in ConfigFiles
    /\ cf_login_cache \in InitialCaches(1)
    /\ cf_config = NoConfig
    /\ cf_saved = FALSE
    /\ cf_removed = FALSE
    /\ cf_result = "pending"

ConfigParked ==
    /\ cf_pc = "parked"
    /\ cf_op = "get"
    /\ cf_phase = "final"
    /\ cf_home = TRUE
    /\ cf_config_file = ConfigFileAbsent
    /\ cf_login_cache = CacheAbsent
    /\ cf_config = NoConfig
    /\ cf_saved = FALSE
    /\ cf_removed = FALSE
    /\ cf_result = "pending"

\* the command returns the error `error`
CfgFail(error) ==
    /\ cf_pc' = "done"
    /\ cf_result' = error

\* a Config::save has returned Ok with the Config `cfg` in hand: the command
\* returns, or `config update` changes the default it got from
\* load_or_default and saves again
CfgSaved(cfg) ==
    IF cf_op = "update" /\ cf_phase = "default"
    THEN /\ \E args \in UpdateArgs : cf_config' = ApplyUpdate(cfg, args)
         /\ cf_phase' = "final"
         /\ cf_pc' = "create_dir"
         /\ UNCHANGED cf_result
    ELSE /\ cf_pc' = "done"
         /\ cf_result' = "Ok"
         /\ UNCHANGED <<cf_config, cf_phase>>

\* the command up to its first await: `config reset` takes Config::new and
\* saves; load_or_default looks for cli.config
CfgStart ==
    /\ ConfigFrame
    /\ cf_pc = "start"
    /\ UNCHANGED <<cf_op, cf_home, cf_config_file, cf_login_cache, cf_saved, cf_removed>>
    /\ IF cf_op = "reset"
       THEN /\ cf_config' = ConfigNew
            /\ cf_pc' = "create_dir"
            /\ UNCHANGED <<cf_phase, cf_result>>
       ELSE IF ~cf_home
       THEN /\ CfgFail("MissingHome")
            /\ UNCHANGED <<cf_config, cf_phase>>
       ELSE IF Exists(cf_config_file)
       THEN /\ cf_pc' = "load"
            /\ UNCHANGED <<cf_config, cf_phase, cf_result>>
       ELSE /\ cf_config' = ConfigNew
            /\ cf_phase' = "default"
            /\ cf_pc' = "create_dir"
            /\ UNCHANGED cf_result

\* Config::load: read_to_string and from_str; `config update` then changes
\* the fields given and saves
CfgLoad ==
    /\ ConfigFrame
    /\ cf_pc = "load"
    /\ UNCHANGED <<cf_op, cf_phase, cf_home, cf_config_file, cf_login_cache,
                   cf_saved, cf_removed>>
    /\ \/ /\ cf_config_file.state = "ok"
          /\ IF cf_op = "update"
             THEN /\ \E args \in UpdateArgs :
                        cf_config' = ApplyUpdate(DeserializeConfig(cf_config_file.text), args)
                  /\ cf_pc' = "create_dir"
                  /\ UNCHANGED cf_result
             ELSE /\ cf_config' = DeserializeConfig(cf_config_file.text)
                  /\ cf_pc' = "done"
                  /\ cf_result' = "Ok"
       \/ /\ cf_config_file.state = "malformed"
          /\ CfgFail("Serialization")
          /\ UNCHANGED cf_config
       \/ \* the file cannot be read
          /\ CfgFail("Io")
          /\ UNCHANGED cf_config

\* Config::save, create_config_dir
CfgCreateDir ==
    /\ ConfigFrame
    /\ cf_pc = "create_dir"
    /\ UNCHANGED <<cf_op, cf_phase, cf_home, cf_config_file, cf_login_cache,
                   cf_config, cf_saved, cf_removed>>
    /\ IF ~cf_home
       THEN CfgFail("MissingHome")
       ELSE \/ cf_pc' = "write" /\ UNCHANGED cf_result
            \/ CfgFail("Io")

\* Config::save, fs::write(&path, contents)
CfgWrite ==
    /\ ConfigFrame
    /\ cf_pc = "write"
    /\ UNCHANGED <<cf_op, cf_phase, cf_home, cf_login_cache, cf_config,
                   cf_saved, cf_removed>>
    /\ \/ /\ cf_config_file' = ConfigFileOf(cf_config)
          /\ cf_pc' = "logout"
          /\ UNCHANGED cf_result
       \/ \* the write fails: the file may have been truncated
          /\ cf_config_file' \in {cf_config_file, ConfigFileMalformed}
          /\ CfgFail("Io")

\* Config::save, Backend::logout, and the return of save
CfgLogout ==
    /\ ConfigFrame
    /\ cf_pc = "logout"
    /\ UNCHANGED <<cf_op, cf_home, cf_config_file>>
    /\ \/ /\ cf_login_cache' = Logout(cf_login_cache)
          /\ cf_removed' = (cf_removed \/ Exists(cf_login_cache))
          /\ cf_saved' = TRUE
          /\ CfgSaved(cf_config)
       \/ \* remove_file fails
          /\ Exists(cf_login_cache)
          /\ CfgFail("Io")
          /\ UNCHANGED <<cf_login_cache, cf_config, cf_phase, cf_saved, cf_removed>>

ConfigNext ==
    \/ CfgStart
    \/ CfgLoad
    \/ CfgCreateDir
    \/ CfgWrite
    \/ CfgLogout

(***************************************************************************)
(* fmt_uuid_v7: the identifiers of webhook events                          *)
(*                                                                         *)
(* A u64 is four 16-bit limbs, most significant first.  Two identifiers    *)
(* are formatted from two pairs (millis, random_bytes) and printed.        *)
(***************************************************************************)

\* the limbs tried: 9 and 10 print as "0009" and "000a"
LimbValues == {0, 9, 10, 65535}

\* the values of `millis`: below 2^48 (top limb 0) and above
MillisValues ==
    {<<w3, w2, w1, w0>> : w3 \in {0, 1}, w2 \in LimbValues,
                          w1 \in {0, 10, 65535}, w0 \in {0, 10, 65535}}

\* the values of `random_bytes`
RandomValues == {<<1, 2, 3, 4, 5, 6, 7, 8, 9, 10>>, [k \in 1..10 |-> 255]}

\* x < y for two u64
LimbsLess(x, y) ==
    \E j \in 1..4 : x[j] < y[j] /\ \A m \in 1..(j - 1) : x[m] = y[m]

\* the big-endian bytes of a 16-bit value
BeBytes16(w) == <<w \div 256, w % 256>>

MillisHigh_LowFirst(millis) == <<millis[3], millis[2]>>

\* `((millis >> 16) & 0xFFFF_FFFF) as u32`, as two limbs
MillisHigh(millis) == <<millis[2], millis[3]>>

\* `(millis & 0xFFFF) as u16`
MillisLow(millis) == millis[4]

\* `(random_bytes[0] as u16 | ((random_bytes[1] as u16) << 8) & 0x0FFF) | (0x7 << 12)`
RandomAndVersion(random_bytes) ==
    BitOr(BitOr(random_bytes[1], BitAnd(random_bytes[2] * 256, 4095)), 7 * 4096)

\* d4
ClockSeqAndNode(random_bytes) ==
    <<BitOr(BitAnd(random_bytes[3], 63), 128)>> \o SubSeq(random_bytes, 4, 10)

\* Uuid::from_fields(d1, d2, d3, &d4): the fields in big-endian order
FromFields(d1, d2, d3, d4) ==
    BeBytes16(d1[1]) \o BeBytes16(d1[2]) \o BeBytes16(d2) \o BeBytes16(d3) \o d4

\* fmt_uuid_v7
FmtUuidV7(millis, random_bytes) ==
    FromFields(MillisHigh(millis), MillisLow(millis),
               RandomAndVersion(random_bytes), ClockSeqAndNode(random_bytes))

\* the character of a hexadecimal digit, lower case
HexChar(d) == IF d < 10 THEN 48 + d ELSE 87 + d

HYPHEN == 45

RECURSIVE HexText(_)
\* the two hexadecimal characters of every byte
HexText(bytes) ==
    IF bytes = <<>> THEN <<>>
    ELSE <<HexChar(Head(bytes) \div 16), HexChar(Head(bytes) % 16)>>
         \o HexText(Tail(bytes))

\* Uuid::to_string: the hyphenated form 8-4-4-4-12
UuidToString(uuid) ==
    HexText(SubSeq(uuid, 1, 4)) \o <<HYPHEN>> \o HexText(SubSeq(uuid, 5, 6))
    \o <<HYPHEN>> \o HexText(SubSeq(uuid, 7, 8)) \o <<HYPHEN>>
    \o HexText(SubSeq(uuid, 9, 10)) \o <<HYPHEN>> \o HexText(SubSeq(uuid, 11, 16))

UuidInit ==
    /\ uu_pc = "format"
    /\ uu_millis \in MillisValues \X MillisValues
    /\ uu_random \in RandomValues \X RandomValues
    /\ uu_uuid = <<>>
    /\ uu_text = <<>>

UuidParked ==
    /\ uu_pc = "parked"
    /\ uu_millis = <<>>
    /\ uu_random = <<>>
    /\ uu_uuid = <<>>
    /\ uu_text = <<>>

\* fmt_uuid_v7 on both inputs
UuidFormat ==
    /\ UuidFrame
    /\ uu_pc = "format"
    /\ uu_uuid' = [k \in 1..2 |-> FmtUuidV7(uu_millis[k], uu_random[k])]
    /\ uu_pc' = "print"
    /\ UNCHANGED <<uu_millis, uu_random, uu_text>>

\* to_string on both identifiers
UuidPrint ==
    /\ UuidFrame
    /\ uu_pc = "print"
    /\ uu_text' = [k \in 1..2 |-> UuidToString(uu_uuid[k])]
    /\ uu_pc' = "done"
    /\ UNCHANGED <<uu_millis, uu_random, uu_uuid>>

UuidNext ==
    \/ UuidFormat
    \/ UuidPrint

(***************************************************************************)
(* VirtualAddress: addition and subtraction                                *)
(*                                                                         *)
(* A u64 is four 16-bit limbs, most significant first.  An operand is a    *)
(* signed integer (sign and magnitude, i8 to i64) or an unsigned one.      *)
(***************************************************************************)

\* Bound: the operations applied to one address in a row
MaxOps == 2

LIMB == 65536

\* a u64 from its limbs
Limbs(w3, w2, w1, w0) == <<w3, w2, w1, w0>>

\* a u64 below 2^16
Small(v) == Limbs(0, 0, 0, v)

\* the addresses tried: 0, 1, 10, 2^63, 0xFFFF_FFFF_FFFF_FFFE, u64::MAX
Addresses ==
    {Small(0), Small(1), Small(10), Limbs(32768, 0, 0, 0),
     Limbs(65535, 65535, 65535, 65534), Limbs(65535, 65535, 65535, 65535)}

\* an operand: an integer of a signed type, or of an unsigned type
Signed(neg, mag) == [signed |-> TRUE, neg |-> neg, mag |-> mag]

Unsigned(mag) == [signed |-> FALSE, neg |-> FALSE, mag |-> mag]

\* the operands tried: 0, 3, -1, -10, i64::MAX, i64::MIN, 5_u8, u64::MAX
Operands ==
    {Signed(FALSE, Small(0)), Signed(FALSE, Small(3)), Signed(TRUE, Small(1)),
     Signed(TRUE, Small(10)), Signed(FALSE, Limbs(32767, 65535, 65535, 65535)),
     Signed(TRUE, Limbs(32768, 0, 0, 0)), Unsigned(Small(5)),
     Unsigned(Limbs(65535, 65535, 65535, 65535))}

Operations == [op : {"add", "sub"}, n : Operands]

\* the sequences of one to MaxOps operations
OperationSeqs == UNION {[1..k -> Operations] : k \in 1..MaxOps}

RECURSIVE CarryInto(_, _, _)
\* the carry of x + y into limb k
CarryInto(x, y, k) ==
    IF k = 4 THEN 0 ELSE (x[k + 1] + y[k + 1] + CarryInto(x, y, k + 1)) \div LIMB

RECURSIVE BorrowInto(_, _, _)
\* the borrow of x - y from limb k
BorrowInto(x, y, k) ==
    IF k = 4 THEN 0
    ELSE IF x[k + 1] - y[k + 1] - BorrowInto(x, y, k + 1) < 0 THEN 1 ELSE 0

WrappingAdd_Saturating(x, y) ==
    IF CarryInto(x, y, 0) > 0 THEN Limbs(65535, 65535, 65535, 65535)
    ELSE [k \in 1..4 |-> (x[k] + y[k] + CarryInto(x, y, k)) % LIMB]

\* u64::wrapping_add
WrappingAdd(x, y) == [k \in 1..4 |-> (x[k] + y[k] + CarryInto(x, y, k)) % LIMB]

\* u64::wrapping_sub
WrappingSub(x, y) ==
    [k \in 1..4 |-> (x[k] - y[k] - BorrowInto(x, y, k) + LIMB) % LIMB]

\* the bits of an i64 read as a u64 (two's complement)
AsU64(n) ==
    IF n.neg
    THEN WrappingAdd([k \in 1..4 |-> LIMB - 1 - n.mag[k]], Small(1))
    ELSE n.mag

\* int_impl: `0_u64.wrapping_add_signed(value.into()).into()`
FromSigned(n) == WrappingAdd(Small(0), AsU64(n))

\* uint_impl: `Self(value.into())`
FromUnsigned(n) == n.mag

\* value.into() of Add, Sub, AddAssign and SubAssign
IntoAddress(n) == IF n.signed THEN FromSigned(n) ELSE FromUnsigned(n)

AddressInit ==
    /\ va_pc = "into"
    /\ va_x \in Addresses
    /\ va_ops \in OperationSeqs
    /\ va_rhs = Small(0)
    /\ va_done = <<>>

AddressParked ==
    /\ va_pc = "parked"
    /\ va_x = Small(0)
    /\ va_ops = <<>>
    /\ va_rhs = Small(0)
    /\ va_done = <<>>

\* `value.into()` / `rhs.into()`
AddressInto ==
    /\ AddressFrame
    /\ va_pc = "into"
    /\ va_ops # <<>>
    /\ va_rhs' = IntoAddress(Head(va_ops).n)
    /\ va_pc' = "apply"
    /\ UNCHANGED <<va_x, va_ops, va_done>>

\* add, add_assign: self.wrapping_add(..); sub, sub_assign: self.wrapping_sub(..)
AddressApply ==
    /\ AddressFrame
    /\ va_pc = "apply"
    /\ va_x' = IF Head(va_ops).op = "add" THEN WrappingAdd(va_x, va_rhs)
               ELSE WrappingSub(va_x, va_rhs)
    /\ va_done' = Append(va_done, [op |-> Head(va_ops), before |-> va_x, after |-> va_x'])
    /\ va_ops' = Tail(va_ops)
    /\ va_pc' = "into"
    /\ UNCHANGED va_rhs

AddressNext ==
    \/ AddressInto
    \/ AddressApply

(***************************************************************************)
(* images_download, artifacts_list, artifacts_get, artifacts_download      *)
(*                                                                         *)
(* Each operation runs images_monitor, takes a capability URL from the     *)
(* image it returns and hands it to a helper of azure_blobs.rs.  The       *)
(* service signs a fresh URL into every snapshot: the URL of the snapshot  *)
(* of poll n names n.                                                      *)
(***************************************************************************)

FetchOps == {"images_download", "artifacts_list", "artifacts_get", "artifacts_download"}

\* Option::None of Image.image_url and Image.artifacts_url
NoUrl == [field |-> "<none>", poll |-> 0]

\* the URL in field `field` of the snapshot of poll number `poll`
SasUrl(field, poll) == [field |-> field, poll |-> poll]

\* which of the two fields the service fills in
UrlFields == [image_url : BOOLEAN, artifacts_url : BOOLEAN]

\* the field of Image the operation reads
UrlField(op) == IF op = "images_download" THEN "image_url" ELSE "artifacts_url"

\* the steps of the storage helper, in order: "create" is File::create of the
\* output, every other step is a request to blob storage
StorageSteps(op) ==
    IF op = "images_download" THEN <<"get_properties", "create", "get">>
    ELSE IF op = "artifacts_list" THEN <<"list_blobs">>
    ELSE IF op = "artifacts_get" THEN <<"get_content">>
    ELSE <<"create", "get">>

FetchInit ==
    /\ ft_op \in FetchOps
    /\ ft_has \in UrlFields
    /\ ft_pc = "monitor"
    /\ ft_url = NoUrl
    /\ ft_step = 0
    /\ ft_storage = <<>>
    /\ ft_output = "absent"
    /\ ft_result = [kind |-> "pending", message |-> ""]

FetchParked ==
    /\ ft_op = "images_download"
    /\ ft_has = [image_url |-> FALSE, artifacts_url |-> FALSE]
    /\ ft_pc = "parked"
    /\ ft_url = NoUrl
    /\ ft_step = 0
    /\ ft_storage = <<>>
    /\ ft_output = "absent"
    /\ ft_result = [kind |-> "pending", message |-> ""]

Propagates_OnlyRequestErrors(result) == result.kind = "request_err"

\* `self.images_monitor(image_id).await?`: every error of the monitor is
\* the error of the operation
Propagates(result) == result.kind # "ok"

\* image.image_url or image.artifacts_url of the image the monitor returned,
\* which is the snapshot of its last poll
UrlOfImage(op, has, polls) ==
    IF has[UrlField(op)] THEN SasUrl(UrlField(op), polls) ELSE NoUrl

\* images_download 376-382, artifacts_get_sas 397-404
FetchAfterMonitor ==
    /\ FetchFrame
    /\ ft_pc = "monitor"
    /\ mon_pc = "returned"
    /\ IF Propagates(mon_result)
       THEN /\ ft_pc' = "returned"
            /\ ft_result' = [kind |-> mon_result.kind, message |-> mon_result.message]
            /\ UNCHANGED ft_url
       ELSE LET url == UrlOfImage(ft_op, ft_has, Len(mon_observed)) IN
            IF url = NoUrl
            THEN /\ ft_pc' = "returned"
                 /\ ft_result' = [kind |-> "invalid_response",
                                  message |-> "missing " \o UrlField(ft_op)]
                 /\ UNCHANGED ft_url
            ELSE /\ ft_pc' = "client"
                 /\ ft_url' = url
                 /\ UNCHANGED ft_result
    /\ UNCHANGED <<ft_op, ft_has, ft_step, ft_storage, ft_output>>

\* BlobClient::from_sas_url, ContainerClient::from_sas_url: parse the URL,
\* send nothing
FetchClient ==
    /\ FetchFrame
    /\ ft_pc = "client"
    /\ \/ /\ ft_pc' = "storage"
          /\ UNCHANGED ft_result
       \/ /\ ft_pc' = "returned"
          /\ ft_result' = [kind |-> "storage_err", message |-> "from_sas_url"]
    /\ UNCHANGED <<ft_op, ft_has, ft_url, ft_step, ft_storage, ft_output>>

\* the next step of blob_download, container_blob_download, blob_get or of
\* the list_blobs stream
FetchStep ==
    /\ FetchFrame
    /\ ft_pc = "storage"
    /\ ft_step < Len(StorageSteps(ft_op))
    /\ LET step == StorageSteps(ft_op)[ft_step + 1] IN
       IF step = "create"
       THEN /\ UNCHANGED ft_storage
            /\ \/ /\ ft_output' = "created"
                  /\ ft_step' = ft_step + 1
                  /\ UNCHANGED <<ft_pc, ft_result>>
               \/ /\ ft_pc' = "returned"
                  /\ ft_result' = [kind |-> "io_err", message |-> "creating file"]
                  /\ UNCHANGED <<ft_output, ft_step>>
       ELSE /\ ft_storage' = Append(ft_storage, [request |-> step, url |-> ft_url])
            /\ UNCHANGED ft_output
            /\ \/ /\ ft_step' = ft_step + 1
                  /\ UNCHANGED <<ft_pc, ft_result>>
               \/ /\ ft_pc' = "returned"
                  /\ ft_result' = [kind |-> "storage_err", message |-> step]
                  /\ UNCHANGED ft_step
    /\ UNCHANGED <<ft_op, ft_has, ft_url>>

\* Ok(..) after the helper's last step
FetchReturn ==
    /\ FetchFrame
    /\ ft_pc = "storage"
    /\ ft_step = Len(StorageSteps(ft_op))
    /\ ft_pc' = "returned"
    /\ ft_result' = [kind |-> "ok", message |-> ""]
    /\ UNCHANGED <<ft_op, ft_has, ft_url, ft_step, ft_storage, ft_output>>

FetchNext ==
    \/ FetchAfterMonitor
    \/ FetchClient
    \/ FetchStep
    \/ FetchReturn

(***************************************************************************)
(* images_upload                                                           *)
(*                                                                         *)
(* open_file, images_create, then blob_upload, which is the component      *)
(* above running on the file that was opened.  Blob storage is touched by  *)
(* blob_upload and by nothing else.                                        *)
(***************************************************************************)

ImageFormats == {"vmrs", "raw", "lime", "core", "avmh"}

\* no file at `path`
NoFile == [hi |-> -1, lo |-> 0]

\* the files tried: empty, one byte, one block, two blocks and a byte
UploadFiles ==
    {U64Zero, U64(1), U64(MIN_BLOCK_SIZE), U64(2 * MIN_BLOCK_SIZE + 1)}

\* the errors of backend.post
CreateErrors == {"Request", "Eula", "Serialization"}

\* the Image of the response, as far as images_upload reads it
NoCreated == [image_id |-> 0, image_url |-> NoUrl]

ImagesUploadInit ==
    /\ iu_pc = "open"
    /\ iu_format \in ImageFormats
    /\ iu_file \in UploadFiles \cup {NoFile}
    /\ iu_handle = "closed"
    /\ iu_requests = <<>>
    /\ iu_records = 0
    /\ iu_image = NoCreated
    /\ iu_result = [kind |-> "pending", message |-> ""]

ImagesUploadParked ==
    /\ iu_pc = "parked"
    /\ iu_format = "lime"
    /\ iu_file = NoFile
    /\ iu_handle = "closed"
    /\ iu_requests = <<>>
    /\ iu_records = 0
    /\ iu_image = NoCreated
    /\ iu_result = [kind |-> "pending", message |-> ""]

\* what the actions of images_upload outside blob_upload leave alone
ImagesUploadOthers ==
    UNCHANGED <<auth_vars, list_vars, monitor_vars, exec_vars, blob_vars,
                compare_vars, config_vars, uuid_vars, address_vars, fetch_vars>>

HasUploadUrl_Always(created) == TRUE

\* `image.image_url.clone().ok_or(Error::InvalidResponse(..))?`
HasUploadUrl(created) == created.image_url # NoUrl

\* `let handle = open_file(path).await?;`
ImagesUploadOpen ==
    /\ ImagesUploadFrame
    /\ iu_pc = "open"
    /\ \/ /\ iu_file # NoFile
          /\ iu_handle' = "open"
          /\ iu_pc' = "create"
          /\ UNCHANGED iu_result
       \/ \* File::open fails: no file, or no permission to read it
          /\ iu_pc' = "returned"
          /\ iu_result' = [kind |-> "io_err", message |-> "opening file"]
          /\ UNCHANGED iu_handle
    /\ UNCHANGED <<iu_format, iu_file, iu_requests, iu_records, iu_image>>

\* `let image = self.images_create(format, tags).await?;`, the check of
\* image_url, and the call of blob_upload up to its first await
ImagesUploadCreate ==
    /\ ImagesUploadOthers
    /\ iu_pc = "create"
    /\ iu_requests' = Append(iu_requests,
                             [method |-> "POST", path |-> "/api/images",
                              format |-> iu_format])
    /\ \/ \* the service creates the record and answers with the image
          \E url \in {NoUrl, SasUrl("image_url", 1)} :
             LET created == [image_id |-> 1, image_url |-> url] IN
             /\ iu_records' = iu_records + 1
             /\ iu_image' = created
             /\ IF HasUploadUrl(created)
                THEN /\ iu_pc' = "upload"
                     /\ UNCHANGED iu_result
                     /\ up_pc' = "start"
                     /\ up_size' = iu_file
                     /\ up_rem' = iu_file
                     /\ UNCHANGED <<up_block_size, up_i, up_staged, up_committed>>
                ELSE /\ iu_pc' = "returned"
                     /\ iu_result' = [kind |-> "invalid_response",
                                      message |-> "missing image_url from the response"]
                     /\ UNCHANGED upload_vars
       \/ \* images_create fails; the service may have created the record
          \E err_kind \in CreateErrors :
             /\ iu_records' \in IF err_kind = "Eula" THEN {iu_records}
                                ELSE IF err_kind = "Serialization" THEN {iu_records + 1}
                                ELSE {iu_records, iu_records + 1}
             /\ iu_pc' = "returned"
             /\ iu_result' = [kind |-> "create_err", message |-> err_kind]
             /\ UNCHANGED <<iu_image, upload_vars>>
    /\ UNCHANGED <<iu_format, iu_file, iu_handle>>

\* `blob_upload(handle, image_url).await?; Ok(image)`
ImagesUploadFinish ==
    /\ ImagesUploadFrame
    /\ iu_pc = "upload"
    /\ up_pc \in {"done", "err"}
    /\ iu_pc' = "returned"
    /\ iu_result' = IF up_pc = "done" THEN [kind |-> "ok", message |-> ""]
                    ELSE [kind |-> "upload_err", message |-> ""]
    /\ UNCHANGED <<iu_format, iu_file, iu_handle, iu_requests, iu_records, iu_image>>

ImagesUploadNext ==
    \/ ImagesUploadOpen
    \/ ImagesUploadCreate
    \/ ImagesUploadFinish

InitUpload == UploadInit /\ AuthParked /\ ListParked /\ MonitorParked /\ ExecParked /\ BlobParked
    /\ CompareParked /\ ConfigParked /\ UuidParked /\ AddressParked /\ FetchParked /\ ImagesUploadParked

NextUpload == UploadNext

SpecUpload == InitUpload /\ [][NextUpload]_vars

InitAuth == UploadParked /\ AuthInit /\ ListParked /\ MonitorParked /\ ExecParked /\ BlobParked
    /\ CompareParked /\ ConfigParked /\ UuidParked /\ AddressParked /\ FetchParked /\ ImagesUploadParked

NextAuth == AuthNext

SpecAuth == InitAuth /\ [][NextAuth]_vars

\* The client with the answers of the identity provider arriving: a process
\* that awaits stream.next() gets the next item of the poll stream.  The
\* configuration is the default one (device code flow, login cache in use),
\* and the cache is absent or holds an expired credential of this client.
InitAuthLive ==
    /\ InitAuth
    /\ config.api_url = DefaultUrl
    /\ \/ cache.state = "absent"
       \/ /\ cache.state = "ok"
          /\ cache.entry.client_id = config.client_id
          /\ cache.entry.expires_on < now
          /\ cache.entry.secret \in {NoSecret, "s1"}

PollsAnswered == \A p \in Procs : WF_vars(DcPoll(p))

SpecAuthLive == InitAuthLive /\ [][NextAuth]_vars /\ PollsAnswered

InitList == UploadParked /\ AuthParked /\ ListInit /\ MonitorParked /\ ExecParked /\ BlobParked
    /\ CompareParked /\ ConfigParked /\ UuidParked /\ AddressParked /\ FetchParked /\ ImagesUploadParked

NextList == ListNext

SpecList == InitList /\ [][NextList]_vars

\* the list streams against a service that ends its listing with an empty
\* cursor
InitListEmptyCursor ==
    UploadParked /\ AuthParked /\ ListInitEmptyCursor /\ MonitorParked
    /\ ExecParked /\ BlobParked /\ CompareParked /\ ConfigParked
    /\ UuidParked /\ AddressParked /\ FetchParked /\ ImagesUploadParked

SpecListEmptyCursor == InitListEmptyCursor /\ [][NextList]_vars

InitMonitor == UploadParked /\ AuthParked /\ ListParked /\ MonitorInit /\ ExecParked /\ BlobParked
    /\ CompareParked /\ ConfigParked /\ UuidParked /\ AddressParked /\ FetchParked /\ ImagesUploadParked

NextMonitor == MonitorNext

SpecMonitor == InitMonitor /\ [][NextMonitor]_vars

InitExec == UploadParked /\ AuthParked /\ ListParked /\ MonitorParked /\ ExecInit /\ BlobParked
    /\ CompareParked /\ ConfigParked /\ UuidParked /\ AddressParked /\ FetchParked /\ ImagesUploadParked

NextExec == ExecNext

SpecExec == InitExec /\ [][NextExec]_vars

InitBlob ==
    UploadParked /\ AuthParked /\ ListParked /\ MonitorParked /\ ExecParked /\ BlobInit
    /\ CompareParked /\ ConfigParked /\ UuidParked /\ AddressParked /\ FetchParked /\ ImagesUploadParked

NextBlob == BlobNext

SpecBlob == InitBlob /\ [][NextBlob]_vars

InitCompare ==
    UploadParked /\ AuthParked /\ ListParked /\ MonitorParked /\ ExecParked /\ BlobParked
    /\ CompareInit /\ ConfigParked /\ UuidParked /\ AddressParked /\ FetchParked /\ ImagesUploadParked

NextCompare == CompareNext

SpecCompare == InitCompare /\ [][NextCompare]_vars

InitConfig ==
    UploadParked /\ AuthParked /\ ListParked /\ MonitorParked /\ ExecParked /\ BlobParked
    /\ CompareParked /\ ConfigInit /\ UuidParked /\ AddressParked /\ FetchParked /\ ImagesUploadParked

NextConfig == ConfigNext

SpecConfig == InitConfig /\ [][NextConfig]_vars

InitUuid ==
    UploadParked /\ AuthParked /\ ListParked /\ MonitorParked
    /\ ExecParked /\ BlobParked /\ CompareParked /\ ConfigParked /\ UuidInit /\ AddressParked /\ FetchParked /\ ImagesUploadParked

NextUuid == UuidNext

SpecUuid == InitUuid /\ [][NextUuid]_vars

InitAddress ==
    UploadParked /\ AuthParked /\ ListParked /\ MonitorParked
    /\ ExecParked /\ BlobParked /\ CompareParked /\ ConfigParked
    /\ UuidParked /\ AddressInit /\ FetchParked /\ ImagesUploadParked

NextAddress == AddressNext

SpecAddress == InitAddress /\ [][NextAddress]_vars

\* one of the four operations, with the images_monitor it runs
InitFetch ==
    UploadParked /\ AuthParked /\ ListParked /\ MonitorInit
    /\ ExecParked /\ BlobParked /\ CompareParked /\ ConfigParked
    /\ UuidParked /\ AddressParked /\ FetchInit /\ ImagesUploadParked

NextFetch == MonitorNext \/ FetchNext

SpecFetch == InitFetch /\ [][NextFetch]_vars

InitImagesUpload ==
    UploadParked /\ AuthParked /\ ListParked /\ MonitorParked
    /\ ExecParked /\ BlobParked /\ CompareParked /\ ConfigParked
    /\ UuidParked /\ AddressParked /\ FetchParked /\ ImagesUploadInit

NextImagesUpload == ImagesUploadNext \/ UploadNext

SpecImagesUpload == InitImagesUpload /\ [][NextImagesUpload]_vars

\* C1: for every file size the block size is max(10 MiB, size / 50_000), so it
\* is at least 10 MiB, and the number of blocks staged for the file is at most
\* 50,000.
C1_BlockCountAtMost50000 ==
    up_pc \in {"loop", "commit", "done"} =>
        /\ up_block_size = Max(MIN_BLOCK_SIZE, DivBlockCount(up_size))
        /\ up_block_size >= MIN_BLOCK_SIZE
        /\ up_staged <= BLOCK_COUNT_DIVISOR

\* C2: for every credential variant, a get_token call made when
\* now >= expires_on performs exactly one refresh attempt (one call of
\* refresh_token) before it returns a token.
C2_ExpiredCallRefreshesOnce ==
    \A r \in Requests :
        (pc[r] \in {"send", "done"} /\ call_when[r] \in {"at", "after"})
            => refresh_calls[r] = 1

\* C3: for every credential variant, a get_token call made when
\* now < expires_on returns the stored token without any refresh: no exchange
\* with the identity provider is started, and neither the credential in memory
\* nor the cache file is modified.
C3_ValidTokenNoRefresh ==
    [][\A r \in Requests :
          (pc[r] = "idle" /\ pc'[r] # "idle" /\ now < auth.expires_on)
              => /\ pc'[r] = "send"
                 /\ tok'[r] = TokenOf(auth)
                 /\ refresh_calls'[r] = 0
                 /\ exchanges' = exchanges
                 /\ auth' = auth
                 /\ cache' = cache
                 /\ lock' = lock]_vars

C3_Witness ==
    \E r \in Requests :
        /\ pc[r] = "send"
        /\ call_when[r] = "before"
        /\ refresh_calls[r] = 0
        /\ auth.type = "DeviceCode"
        /\ tok[r] = auth.access

\* C4: with several requests issued on one client whose credential has
\* expired, at most one refresh is in flight at any time, a refresh is started
\* only by the holder of the lock and only on an expired credential, and a
\* request that obtains the lock once the credential is no longer expired
\* returns the token now stored without starting another refresh.
C4_OneRefreshInFlight ==
    [][/\ Cardinality({r \in Requests : pc'[r] \in FlowPcs}) <= 1
       /\ \A r \in Requests :
            (pc[r] \notin FlowPcs /\ pc'[r] \in FlowPcs)
                => /\ auth.expires_on < now
                   /\ lock' = r
                   /\ \A o \in Requests \ {r} : pc[o] \notin FlowPcs
       /\ \A r \in Requests :
            (pc[r] = "idle" /\ pc'[r] # "idle" /\ ~(auth.expires_on < now))
                => /\ pc'[r] = "send"
                   /\ tok'[r] = TokenOf(auth)
                   /\ exchanges' = exchanges]_vars

C4_Witness ==
    \E r1, r2 \in Requests :
        /\ r1 # r2
        /\ pc[r1] \in {"send", "done"} /\ refresh_calls[r1] = 1
        /\ pc[r2] \in {"send", "done"} /\ refresh_calls[r2] = 0
        /\ tok[r1] >= 2
        /\ tok[r2] = tok[r1]
        /\ auth.access = tok[r1]

\* C5: across any sequence of get_token / refresh_token calls, successful or
\* failed, the variant of the credential, its client_id and its stored client
\* secret never change; a refresh replaces only the tokens and expires_on.
C5_VariantPreserved ==
    [][pc[0] = "ready"
          => /\ auth'.type = auth.type
             /\ auth'.client_id = auth.client_id
             /\ auth'.secret = auth.secret]_vars

C5_Witness ==
    \E r \in Requests :
        /\ pc[r] = "send" /\ refresh_calls[r] = 1
        /\ auth.type = "ClientCredentials"
        /\ auth.access = tok[r] /\ tok[r] >= 2
        /\ auth.secret # config.client_secret

\* C6: for a service that returns N elements split over pages of any size,
\* linked by cursors, the last page carrying no cursor, a fully consumed list
\* stream (images_list, webhooks_list, webhooks_logs) has yielded exactly the
\* N elements, each once, in the service's order.
C6_AllElementsInOrder ==
    ls_pc = "done" => ls_yielded = ServerElements(ls_pages)

C6_Witness ==
    /\ ls_pc = "done"
    /\ Len(ls_pages) = 3
    /\ Len(ls_pages[1].items) = 2 /\ Len(ls_pages[2].items) = 1
    /\ Len(ls_yielded) >= 4

\* the last page received carried no cursor and the stream has not failed
FinalPageReceived ==
    /\ ls_pc \in {"yield", "done", "dropped"}
    /\ ls_requests # <<>>
    /\ ls_result.continuation = NoCursor

\* C7: a page returned with no cursor is the final page: from then on the
\* stream issues no further list request, and it ends only after all the
\* elements of that page have been yielded.
C7_NoCursorIsFinalPage ==
    [][FinalPageReceived
          => /\ ls_requests' = ls_requests
             /\ FinalPageReceived'
             /\ ls_pc' = "done"
                  => /\ ls_j' = Len(ls_result.items)
                     /\ Len(ls_yielded') >= ls_j'
                     /\ SubSeq(ls_yielded', Len(ls_yielded') - ls_j' + 1, Len(ls_yielded'))
                            = ls_result.items]_vars

C7_Witness ==
    /\ ls_pc = "done"
    /\ Len(ls_requests) >= 2
    /\ ls_result.continuation = NoCursor
    /\ Len(ls_result.items) >= 2

\* C8: a page that contains zero elements but carries a cursor does not end
\* the stream: the stream goes on to a request, the request that follows
\* carries that cursor, and a stream that ends has yielded the elements of the
\* page after the empty one.
C8_EmptyPageContinues ==
    [][/\ (ls_pc = "yield" /\ ls_result.items = <<>> /\ ls_result.continuation # NoCursor)
            => ls_pc' \in {"request", "dropped"}
       /\ (ls_pc = "request" /\ ls_requests # <<>> /\ ls_requests' # ls_requests
             /\ ls_result.items = <<>>)
            => /\ ls_result.continuation # NoCursor
               /\ ls_requests'[Len(ls_requests')].continuation = ls_result.continuation
       /\ ls_pc' = "done"
            => \A i \in 1..(Len(ls_pages) - 1) :
                  ls_pages[i].items = <<>>
                     => \A k \in 1..Len(ls_pages[i + 1].items) :
                           \E m \in 1..Len(ls_yielded') :
                              ls_yielded'[m] = ls_pages[i + 1].items[k]]_vars

C8_Witness ==
    /\ ls_pc = "yield"
    /\ ls_j >= 1
    /\ Len(ls_requests) >= 2
    /\ ServerPage(ls_pages, ls_requests[Len(ls_requests) - 1].continuation).items = <<>>
    /\ ls_requests[Len(ls_requests)].continuation # NoCursor

\* the polls after which the spec has a state notice: the first read, and each
\* later poll whose state differs from that of the poll before
ClaimedNoticePolls(obs) ==
    {i \in 1..Len(obs) : i = 1 \/ obs[i].state # obs[i - 1].state}

\* the same, less a first read that is already Completed
AmendedNoticePolls(obs) ==
    {i \in 1..Len(obs) :
        \/ i = 1 /\ obs[1].state # "Completed"
        \/ i > 1 /\ obs[i].state # obs[i - 1].state}

\* images_monitor returned Ok: the last of its n polls is the first terminal
\* state, Completed; its snapshot is returned; the notices follow the polls
\* `polls`, one each, no others
MonitorCompleted(polls) ==
    LET n == Len(mon_observed) IN
    /\ n >= 1
    /\ mon_observed[n].state = "Completed"
    /\ \A i \in 1..(n - 1) : mon_observed[i].state \notin {"Completed", "Failed"}
    /\ mon_result.image = mon_observed[n]
    /\ {mon_notices[k].poll : k \in 1..Len(mon_notices)} = polls
    /\ Len(mon_notices) = Cardinality(polls)

\* C9 (as amended): for a sequence of polled states whose first terminal state
\* is Completed at position n, images_monitor issues exactly n polls, emits a
\* state notice for the first read unless that read is already Completed, and
\* for each later poll whose state differs from the previous poll's (and for
\* no other poll), and returns the snapshot of poll n.  A poll that observes
\* Completed is the last one.
C9_MonitorCompleted ==
    /\ (mon_pc = "returned" /\ mon_result.kind = "ok")
          => MonitorCompleted(AmendedNoticePolls(mon_observed))
    /\ \A i \in 1..Len(mon_observed) :
          mon_observed[i].state = "Completed"
             => /\ i = Len(mon_observed)
                /\ mon_pc \in {"loop", "returned"}

\* C9 as stated: a notice for the first read in every case
C9_NoticeOnEveryFirstRead ==
    (mon_pc = "returned" /\ mon_result.kind = "ok")
        => MonitorCompleted(ClaimedNoticePolls(mon_observed))

C9_Witness ==
    /\ mon_pc = "returned" /\ mon_result.kind = "ok"
    /\ Len(mon_observed) = 4
    /\ mon_observed[1].state = "Queued" /\ mon_observed[2].state = "Running"
    /\ mon_observed[3].state = "Running" /\ mon_observed[4].state = "Completed"
    /\ Len(mon_notices) = 3

\* C10: whenever a poll of images_monitor observes state Failed, on the first
\* poll or a later one, it is the last poll, and the monitor fails with
\* AnalysisFailed whose message is the job's error field when present and
\* "unknown error" when absent.
C10_FailedStopsWithMessage ==
    \A i \in 1..Len(mon_observed) :
        mon_observed[i].state = "Failed"
           => /\ i = Len(mon_observed)
              /\ \/ mon_pc = "loop"
                 \/ /\ mon_pc = "returned"
                    /\ mon_result.kind = "analysis_failed"
                    /\ mon_result.message =
                          (IF mon_observed[i].error # NoError
                           THEN mon_observed[i].error ELSE "unknown error")

C10_Witness ==
    /\ mon_pc = "returned" /\ mon_result.kind = "analysis_failed"
    /\ mon_result.message = "boom"
    /\ Len(mon_observed) = 2
    /\ mon_observed[1].state = "Queued"

\* execute_raw returned for a response with status 451
Returned451 ==
    /\ ex_pc = "returned"
    /\ ex_response.status = UNAVAILABLE_FOR_LEGAL_REASONS

\* the result is Error::Eula and carries the body of the response as text:
\* the body decoded as UTF-8, which for a body that is UTF-8 has the bytes of
\* the body
EulaOfBody ==
    /\ ex_result.kind = "Eula"
    /\ ex_result.payload = FromUtf8Lossy(ex_response.body)
    /\ (\A i \in 1..Len(ex_response.body) : ex_response.body[i] < 128)
          => Utf8Encode(ex_result.payload) = ex_response.body

\* C11 (as amended): for every method, query, body and token of the call, a
\* response with status 451 whose body can be read yields Error::Eula carrying
\* the response body as the terms text, and never the error of a failed status
\* (error_for_status); when reading the body fails, the transport error of the
\* read is returned instead.
C11_Status451Eula ==
    Returned451 =>
        \/ EulaOfBody
        \/ ex_result = ExecResult("Request", <<>>, 0)

\* C11 as stated: Error::Eula for every response with status 451
C11_Status451AlwaysEula ==
    Returned451 => EulaOfBody

C11_Witness ==
    /\ Returned451
    /\ ex_request.method = "POST" /\ ex_request.authorization # NoToken
    /\ ex_response.body = <<97, 255>>
    /\ ex_result = ExecResult("Eula", <<97, REPLACEMENT_CHARACTER>>, 451)

RECURSIVE HexValue(_)
\* the number a sequence of hexadecimal digits denotes
HexValue(digits) ==
    IF digits = <<>> THEN 0
    ELSE 16 * HexValue(SubSeq(digits, 1, Len(digits) - 1)) + digits[Len(digits)]

\* x comes before y in the order of strings of one length
LexLess(x, y) ==
    \E j \in 1..Len(x) :
        /\ x[j] < y[j]
        /\ \A m \in 1..(j - 1) : x[m] = y[m]

\* the number of blocks of block_size bytes that hold the source file
BlocksOfSource == (ByteLen(bl_source) + bl_block_size - 1) \div bl_block_size

\* block number k (from 0) of the source file
SourceBlock(k) == TakeBytes(DropBytes(bl_source, k * bl_block_size), bl_block_size)

\* C12: in blob_upload the block-list commit is issued only after every block
\* of the file has been staged successfully, and it lists exactly the staged
\* block ids in ascending order, the id of block k being k in hexadecimal,
\* zero-padded to 32 digits; when reading or staging a block fails (or the
\* upload fails before its loop), the operation returns the error and no
\* commit is issued, then or later.
C12_CommitAfterAllStaged ==
    [][/\ bl_commits' # bl_commits
            => /\ bl_commits = <<>>
               /\ bl_handle = <<>>
               /\ bl_commits' = <<bl_block_list>>
               /\ Len(bl_block_list) = BlocksOfSource
               /\ Len(bl_uncommitted) = BlocksOfSource
               /\ \A k \in 1..Len(bl_block_list) :
                     /\ Len(bl_block_list[k]) = 32
                     /\ HexValue(bl_block_list[k]) = k - 1
                     /\ k > 1 => LexLess(bl_block_list[k - 1], bl_block_list[k])
                     /\ bl_uncommitted[k] =
                            [id |-> bl_block_list[k], data |-> SourceBlock(k - 1)]
       /\ bl_result'.upload \in {"start", "read", "put_block"}
            => /\ bl_pc' \in {"upload_returned", "download_returned"}
               /\ bl_commits' = <<>>]_vars

C12_Witness ==
    /\ bl_result.upload = "Ok"
    /\ Len(bl_commits) = 1
    /\ Len(bl_commits[1]) = 17
    /\ bl_commits[1][17] = [k \in 1..32 |-> IF k = 31 THEN 1 ELSE 0]

\* C13: upload followed by download is the identity on file contents: the
\* blob committed by blob_upload, the concatenation of its blocks in list
\* order, has the bytes of the source file; blob_download writes the pieces of
\* the blob to the destination in order; and the downloaded file is
\* byte-identical to the uploaded one, for every file length (the empty file
\* and lengths that are not a multiple of the block size included).
C13_RoundTripIdentity ==
    bl_result.upload = "Ok"
        => /\ bl_blob = Present(bl_source)
           /\ bl_pc = "download_stream"
                => /\ bl_dest.exists
                   /\ CatBytes(bl_dest.data, bl_stream) = bl_blob.data
           /\ bl_result.download = "Ok" => bl_dest = Present(bl_source)

C13_Witness ==
    /\ bl_result = BlobResult("Ok", "Ok")
    /\ bl_source = <<Run(MIN_BLOCK_SIZE + 1, 98), Run(MIN_BLOCK_SIZE, 97), Run(1, 98)>>
    /\ Len(bl_commits[1]) = 3
    /\ bl_dest = Present(bl_source)

\* C14: for all strings a and b, compare(a, b) is true exactly when a and b
\* are byte-for-byte equal; strings of unequal length give false at once, no
\* byte of either read, and no read goes past the end of either string; for
\* equal lengths every byte position is examined, whether or not an earlier
\* position already differed.
C14_CompareIsEquality ==
    /\ cmp_k <= Len(cmp_a) /\ cmp_k <= Len(cmp_b)
    /\ cmp_pc = "returned"
          => /\ cmp_ret = (cmp_a = cmp_b)
             /\ Len(cmp_a) # Len(cmp_b) => (~cmp_ret /\ cmp_k = 0)
             /\ Len(cmp_a) = Len(cmp_b) => cmp_k = Len(cmp_a)

C14_Witness ==
    /\ cmp_pc = "returned"
    /\ cmp_a = <<97, 98, 100>>
    /\ cmp_b = <<98, 98, 100>>
    /\ cmp_k = 3
    /\ cmp_result = 3
    /\ ~cmp_ret

\* the device code flow that process p runs in place of a failed refresh ends
\* in this step
FallbackEnds(p) ==
    /\ flow.origin = "refresh_failed"
    /\ pc[p] \in {"dc_start", "dc_poll"}
    /\ pc'[p] \notin {"dc_start", "dc_poll"}

\* the flow's authorization became the credential in this step
FallbackAdopted(p) ==
    /\ pc[p] = "dc_poll" /\ flow.stream = "open"
    /\ \E d \in 0..MaxExpiresIn :
          auth' = ApplyRefresh(auth, WithService(config, t0[p], next_token, d))

\* when the refresh-token exchange fails the failure is not returned, the
\* device code flow is started instead; a failure returned from the exchange
\* step is that of save(), after a successful exchange
RefreshFailureNotReturned(p) ==
    (pc[p] = "dc_refresh" /\ pc'[p] # "dc_refresh")
        => \/ /\ pc'[p] = "dc_start"
              /\ flow'.origin = "refresh_failed"
              /\ err'[p] = "none"
              /\ auth' = auth /\ cache' = cache /\ lock' = lock
           \/ /\ auth'.access = next_token
              /\ pc'[p] \in {"send", "failed"}
              /\ pc'[p] = "failed" => err'[p] = "Io"

\* C15 (as amended): when an expired DeviceCode credential is refreshed and
\* the refresh-token exchange fails, the failure is not returned to the
\* caller: the full device-code flow is run instead and its result becomes the
\* credential and the token handed out.  The refresh then ends in an error
\* when the device-code flow cannot be started, when its poll stream is
\* exhausted, when the authorization carries no refresh token, or when the new
\* credential cannot be saved to the login cache.
C15_RefreshFallsBackToDeviceCode ==
    [][\A p \in Procs :
          /\ RefreshFailureNotReturned(p)
          /\ FallbackEnds(p)
                => \/ /\ pc'[p] = "send"
                      /\ FallbackAdopted(p)
                      /\ tok'[p] = auth'.access
                      /\ err'[p] = "none"
                   \/ /\ pc'[p] = "failed" /\ err'[p] = "Auth"
                      /\ flow.stream = "finished" /\ auth' = auth
                   \/ /\ pc'[p] = "failed" /\ err'[p] = "Azure"
                      /\ pc[p] = "dc_start" /\ auth' = auth
                   \/ /\ pc'[p] = "failed" /\ err'[p] = "InvalidToken"
                      /\ flow.stream = "open" /\ auth' = auth
                   \/ /\ pc'[p] = "failed" /\ err'[p] = "Io"
                      /\ FallbackAdopted(p)]_vars

\* C15 as stated: the refresh ends in an error only when the interactive flow
\* is exhausted
C15_ErrorOnlyWhenExhausted ==
    [][\A p \in Procs :
          /\ RefreshFailureNotReturned(p)
          /\ (FallbackEnds(p) /\ pc'[p] = "failed")
                => (err'[p] = "Auth" /\ flow.stream = "finished")]_vars

C15_Witness ==
    \E r \in Requests :
        /\ pc[r] = "send"
        /\ refresh_calls[r] = 1
        /\ flow = Flow("refresh_failed", "none", 0)
        /\ lock = NoProc
        /\ auth.type = "DeviceCode"
        /\ tok[r] = auth.access /\ tok[r] >= 2
        /\ cache = CacheOf(auth)

\* the poll of process p in this step yields an error
PollYieldsError(p) ==
    /\ pc[p] = "dc_poll"
    /\ flow.stream = "open"
    /\ \/ flow'.pending = flow.pending + 1
       \/ flow'.stream = "finished"

\* C16: in the device-code flow, a poll that yields an error is followed by
\* another poll; the loop ends with the first authorization; it ends with the
\* authentication error (Error::Auth) when the poll stream is exhausted, which
\* is the poll after the identity provider reported a terminal failure; and
\* every flow ends, the provider answering authorization_pending only until
\* its device code expires.
C16_DeviceCodePollLoop ==
    /\ [][\A p \in Procs :
            /\ PollYieldsError(p)
                  => /\ pc'[p] = "dc_poll"
                     /\ err'[p] = "none"
                     /\ auth' = auth
            /\ (pc[p] = "dc_poll" /\ pc'[p] # "dc_poll")
                  => \/ /\ flow.stream = "open"
                        /\ \/ /\ pc'[p] \in {"ready", "send"}
                              /\ auth'.access = next_token
                              /\ auth'.type = "DeviceCode"
                           \/ pc'[p] = "failed" /\ err'[p] \in {"InvalidToken", "Io"}
                     \/ /\ flow.stream = "finished"
                        /\ pc'[p] = "failed"
                        /\ err'[p] = "Auth"
                        /\ auth' = auth
            /\ (pc[p] = "dc_poll" /\ flow.stream = "finished")
                  => pc'[p] \in {"dc_poll", "failed"}]_vars
    /\ \A p \in Procs : pc[p] = "dc_poll" ~> pc[p] # "dc_poll"

C16_Witness ==
    /\ pc[0] = "failed"
    /\ err[0] = "Auth"
    /\ flow = Flow("create", "none", 0)
    /\ exchanges = 1
    /\ auth = NoAuth

\* process p ends a flow in this step with a credential: Backend::new returns
\* the client, or refresh_token returns Ok
CredentialStored(p) ==
    /\ pc[p] \in {"cc_exchange", "dc_refresh", "dc_poll"}
    /\ pc'[p] = IF p = 0 THEN "ready" ELSE "send"

\* from_cache on the file `file`: the Auth it deserializes to
FromCache(file) == IF file.state = "ok" THEN file.entry ELSE NoAuth

\* C17: after every successful creation or refresh of the credential with the
\* login cache enabled, login.cache holds exactly the credential in memory;
\* with the login cache disabled no step of client creation, get_token or
\* refresh reads, writes or deletes login.cache.
C17_CacheHoldsCredential ==
    [][/\ \A p \in Procs :
             (CredentialStored(p) /\ ~config.ignore_login_cache)
                => (/\ cache'.state = "ok"
                    /\ FromCache(cache') = auth'
                    /\ auth'.access = next_token)
       /\ config.ignore_login_cache
             => (/\ cache' = cache
                 /\ cache_ops' = {})]_vars

C17_Witness ==
    \E r \in Requests :
        /\ ~config.ignore_login_cache
        /\ pc[r] = "send"
        /\ refresh_calls[r] = 1
        /\ auth.type = "ClientCredentials"
        /\ auth.access >= 3
        /\ tok[r] = auth.access
        /\ "write" \in cache_ops
        /\ cache = CacheOf(auth)

\* C18: when the client is created with the login cache enabled, the cached
\* credential is adopted exactly when login.cache can be read and parsed and
\* its client_id is the configuration's; a cache of another client_id is
\* deleted before the flow that creates the new credential starts; a cache
\* that cannot be read or parsed is a miss: the flow starts and no error is
\* returned.
C18_CacheAdoption ==
    [][(pc[0] = "new" /\ pc'[0] # "new" /\ ~config.ignore_login_cache)
          => /\ (pc'[0] = "ready" /\ auth' = cache.entry /\ cache' = cache)
                   <=> (cache.state = "ok"
                          /\ cache.entry.client_id = config.client_id)
             /\ (cache.state = "ok" /\ cache.entry.client_id # config.client_id)
                   => (\/ /\ pc'[0] = FirstFlow(config)
                          /\ cache' = CacheAbsent
                          /\ auth' = NoAuth
                       \/ /\ pc'[0] = "failed"
                          /\ err'[0] = "Io"
                          /\ auth' = NoAuth)
             /\ (cache.state # "ok")
                   => (/\ pc'[0] = FirstFlow(config)
                       /\ err'[0] = "none"
                       /\ cache' = cache)]_vars

C18_Witness ==
    /\ ~config.ignore_login_cache
    /\ pc[0] = "ready"
    /\ "delete" \in cache_ops
    /\ "write" \in cache_ops
    /\ auth.client_id = config.client_id
    /\ auth.access >= 2
    /\ cache = CacheOf(auth)

\* C19: with the address of the local development endpoint,
\* http://localhost:7071, as the configured api_url, the client is created
\* without reading login.cache and without a request to the identity
\* provider, and every get_token returns None, so that no request carries an
\* Authorization header.
C19_LocalEndpointNoAuth ==
    config.api_url \in {UrlParse(u) : u \in LocalUrlTexts}
        => /\ cache_ops = {}
           /\ exchanges = 0
           /\ pc[0] \in {"new", "ready", "parked"}
           /\ auth.type \in {"unset", "None"}
           /\ \A r \in Requests : pc[r] = "send" => tok[r] = NoToken

C21_NonSuccessIsRequestError ==
    (ex_pc = "returned" /\ ex_response # NoResponse)
        => /\ (~(ex_response.status \in 200..299) /\ ex_response.status # 451)
                 => ex_result = ExecResult("Request", ex_response.body,
                                           ex_response.status)
           /\ ex_result.kind = "Ok" => ex_response.status \in 200..299

\* C22: fmt_uuid_v7 is a function of (millis, random_bytes), and its
\* identifiers sort by time: for timestamps m1 < m2 below 2^48 and any random
\* bytes, the text of the first identifier comes before the text of the
\* second in the order of strings.
C22_UuidSortsByTime ==
    uu_pc = "done"
        => /\ (uu_millis[1] = uu_millis[2] /\ uu_random[1] = uu_random[2])
                 => (uu_uuid[1] = uu_uuid[2] /\ uu_text[1] = uu_text[2])
           /\ (/\ uu_millis[1][1] = 0
               /\ uu_millis[2][1] = 0
               /\ LimbsLess(uu_millis[1], uu_millis[2]))
                 => (/\ Len(uu_text[1]) = 36
                     /\ Len(uu_text[2]) = 36
                     /\ LexLess(uu_text[1], uu_text[2]))

\* the timestamps differ in a digit, 9 and a, the later one has the smaller
\* low bits, and the random bytes of the earlier identifier are the larger
C22_Witness ==
    /\ uu_pc = "done"
    /\ uu_millis = << <<0, 9, 65535, 65535>>, <<0, 10, 0, 0>> >>
    /\ uu_random[1] = [k \in 1..10 |-> 255]
    /\ uu_random[2] = <<1, 2, 3, 4, 5, 6, 7, 8, 9, 10>>
    /\ LexLess(uu_text[1], uu_text[2])

\* (x + n) mod 2^64 and (x - n) mod 2^64 for the integer n: adding a negative
\* number takes its magnitude away, subtracting it adds the magnitude
ModularResult(x, op, n) ==
    IF (op = "add") = ~n.neg THEN WrappingAdd(x, n.mag) ELSE WrappingSub(x, n.mag)

\* the integer a u64 below 2^16 stands for, and -1 for any other
SmallValue(x) == IF x[1] = 0 /\ x[2] = 0 /\ x[3] = 0 THEN x[4] ELSE -1

\* the integer of an operand of small magnitude
SmallOperand(n) == IF n.neg THEN 0 - SmallValue(n.mag) ELSE SmallValue(n.mag)

\* C23: addition and subtraction on VirtualAddress never fail and wrap modulo
\* 2^64, a signed operand n counting as n mod 2^64: every x + n is
\* (x + n) mod 2^64 and every x - n is (x - n) mod 2^64; where nothing wraps
\* the result is the sum or difference of the integers;
\* 0xFFFF_FFFF_FFFF_FFFE + 3 = 1 and 10 - (-10) + 5 = 25.
C23_AddressArithmeticWraps ==
    /\ \A k \in 1..Len(va_done) :
        LET d == va_done[k]
            expected == IF d.op.op = "add"
                        THEN SmallValue(d.before) + SmallOperand(d.op.n)
                        ELSE SmallValue(d.before) - SmallOperand(d.op.n)
        IN  /\ d.after = ModularResult(d.before, d.op.op, d.op.n)
            /\ (/\ SmallValue(d.before) >= 0
                /\ SmallValue(d.op.n.mag) >= 0
                /\ expected \in 0..(LIMB - 1))
                  => d.after = Small(expected)
    /\ (/\ Len(va_done) = 1
        /\ va_done[1].before = Limbs(65535, 65535, 65535, 65534)
        /\ va_done[1].op = [op |-> "add", n |-> Signed(FALSE, Small(3))])
          => va_x = Small(1)
    /\ (/\ Len(va_done) = 2
        /\ va_done[1].before = Small(10)
        /\ va_done[1].op = [op |-> "sub", n |-> Signed(TRUE, Small(10))]
        /\ va_done[2].op = [op |-> "add", n |-> Unsigned(Small(5))])
          => va_x = Small(25)

\* 1 + (-10) wraps below zero, then - i64::MIN adds 2^63
C23_Witness ==
    /\ Len(va_done) = 2
    /\ va_done[1].before = Small(1)
    /\ va_done[1].op = [op |-> "add", n |-> Signed(TRUE, Small(10))]
    /\ va_done[1].after = Limbs(65535, 65535, 65535, 65527)
    /\ va_done[2].op = [op |-> "sub", n |-> Signed(TRUE, Limbs(32768, 0, 0, 0))]
    /\ va_x = Limbs(32767, 65535, 65535, 65527)

\* C24: a page whose cursor is present but empty ends the stream like a page
\* without cursor: its elements are yielded and no further list request is
\* issued.
C24_EmptyCursorEndsStream ==
    [][(ls_requests # <<>> /\ ls_pc # "failed" /\ ls_result.continuation = EmptyCursor)
          => /\ ls_requests' = ls_requests
             /\ ls_pc' \in {"yield", "done", "dropped"}]_vars

\* the outcome of the last images_get
LastPoll(polls) == polls[Len(polls)]

\* C25: when a poll of images_monitor fails, the first or a later one, the
\* monitor returns the error of that poll at once: it polls no more and does
\* not repeat the failed poll.
C25_FailedPollReturned ==
    [][/\ (Len(mon_polls') > Len(mon_polls) /\ LastPoll(mon_polls') # "ok")
            => /\ mon_pc' = "returned"
               /\ mon_result' = [kind |-> "request_err", image |-> NoImage,
                                 message |-> LastPoll(mon_polls')]
               /\ mon_notices' = mon_notices
       /\ (mon_polls # <<>> /\ LastPoll(mon_polls) # "ok")
            => /\ mon_polls' = mon_polls
               /\ mon_result' = mon_result
               /\ mon_pc' = "returned"]_vars

C25_Witness ==
    /\ mon_pc = "returned"
    /\ mon_polls = <<"ok", "ok", "Eula">>
    /\ mon_result.kind = "request_err"
    /\ mon_result.message = "Eula"
    /\ Len(mon_observed) = 2
    /\ mon_observed[2].state = "Running"

\* C26: a request takes the lock of the credential once, to get its token,
\* and has released it when the HTTP request is sent: the lock is held only
\* by a request that waits for the identity provider, a request that is
\* being sent does not hold it and keeps no other request from getting its
\* token, and a request whose get_token failed is never sent.
C26_LockOnlyForToken ==
    [][\A r \in Requests :
          /\ (lock # r /\ lock' = r) => pc[r] = "idle"
          /\ pc[r] # "idle" => pc'[r] # "idle"
          /\ lock' = r <=> pc'[r] \in FlowPcs
          /\ (pc'[r] = "send" /\ \A o \in Requests : pc'[o] \notin FlowPcs)
                => /\ lock' = NoProc
                   /\ \A o \in Requests : LockAvailable(o)'
          /\ pc[r] = "failed" => pc'[r] = "failed"
          /\ pc'[r] \in {"send", "done"} => err'[r] = "none"]_vars

\* request 1 is being sent while request 2, which came later, refreshes
C26_Witness ==
    /\ pc[1] = "send"
    /\ tok[1] = 1
    /\ pc[2] = "dc_refresh"
    /\ lock = 2
    /\ refresh_calls[2] = 1

RECURSIVE ReceivedItems(_, _, _)
\* the items of the pages the service returned for requests[1..i], in order
ReceivedItems(pages, requests, i) ==
    IF i = 0 THEN <<>>
    ELSE ReceivedItems(pages, requests, i - 1)
            \o ServerPage(pages, requests[i].continuation).items

\* C27: a list stream issues its requests lazily and one at a time.  A stream
\* that was built and not yet polled has issued no request; a step issues at
\* most one request, and only when the consumer has polled and every element
\* of every page received so far has been yielded; the request carries the
\* path and the filters the stream was created with and the cursor returned
\* with the previous page (none for the first request); the filters never
\* change; after the consumer dropped the stream no request is issued.
C27_LazyOneAtATime ==
    [][/\ ls_pc = "created" => ls_requests = <<>>
       /\ ls_filter' = ls_filter
       /\ ls_requests' # ls_requests
            => /\ ls_pc = "request"
               /\ Len(ls_requests') = Len(ls_requests) + 1
               /\ SubSeq(ls_requests', 1, Len(ls_requests)) = ls_requests
               /\ ls_j = Len(ls_result.items)
               /\ ls_yielded = ReceivedItems(ls_pages, ls_requests, Len(ls_requests))
               /\ ls_requests'[Len(ls_requests')] =
                     [path |-> ListPath(ls_kind),
                      filter |-> ls_filter,
                      continuation |-> IF ls_requests = <<>> THEN NoCursor
                                       ELSE ls_result.continuation]
       /\ ls_pc = "dropped" => (ls_requests' = ls_requests /\ ls_pc' = "dropped")]_vars

\* the consumer stopped in the middle of the second of three pages: two
\* requests were issued, the second with the cursor of page 2 and the filter
C27_Witness ==
    /\ ls_pc = "dropped"
    /\ ls_kind = "images"
    /\ ls_filter.state = "Completed"
    /\ Len(ls_pages) = 3
    /\ Len(ls_pages[1].items) = 2 /\ Len(ls_pages[2].items) = 2
    /\ ls_yielded = <<1, 2, 3>>
    /\ Len(ls_requests) = 2
    /\ ls_requests[2] = [path |-> "/api/images", filter |-> ls_filter,
                         continuation |-> Cursors[2]]

\* the snapshot of the monitor's last successful poll
LastObserved == mon_observed[Len(mon_observed)]

\* C28: images_download, artifacts_list, artifacts_get and artifacts_download
\* touch blob storage, and create their output file, only after the monitor
\* returned an image it observed as Completed, and every storage request
\* carries the URL of that Completed snapshot; the operation returns only
\* after the monitor has, and the monitor has not returned while every poll
\* succeeded and the last snapshot is in a non-terminal state; when the
\* last snapshot is Failed the operation returns AnalysisFailed, has sent
\* nothing to storage and has created no file.
C28_StorageOnlyAfterCompleted ==
    /\ (ft_storage # <<>> \/ ft_output = "created" \/ ft_pc \in {"client", "storage"})
          => /\ mon_pc = "returned"
             /\ mon_result.kind = "ok"
             /\ mon_result.image = LastObserved
             /\ LastObserved.state = "Completed"
             /\ ft_url = SasUrl(UrlField(ft_op), Len(mon_observed))
             /\ \A i \in 1..Len(ft_storage) : ft_storage[i].url = ft_url
    /\ ft_pc = "returned" => mon_pc = "returned"
    /\ (mon_observed # <<>> /\ Len(mon_polls) = Len(mon_observed)
          /\ LastObserved.state \notin {"Completed", "Failed"})
          => /\ mon_pc # "returned"
             /\ ft_pc = "monitor"
    /\ (mon_observed # <<>> /\ Len(mon_polls) = Len(mon_observed)
          /\ LastObserved.state = "Failed")
          => /\ ft_storage = <<>>
             /\ ft_output = "absent"
             /\ ft_pc \in {"monitor", "returned"}
             /\ ft_pc = "returned" => ft_result.kind = "analysis_failed"

\* images_download after the polls Queued, Running, Completed: both storage
\* requests carry the image URL of the third snapshot
C28_Witness ==
    /\ ft_op = "images_download"
    /\ Len(mon_observed) = 3
    /\ mon_observed[1].state = "Queued" /\ mon_observed[2].state = "Running"
    /\ ft_output = "created"
    /\ ft_result.kind = "ok"
    /\ ft_storage = <<[request |-> "get_properties", url |-> SasUrl("image_url", 3)],
                      [request |-> "get", url |-> SasUrl("image_url", 3)]>>

\* C29: images_upload opens the file, then creates the image record, then
\* uploads.  A request is sent to the service only with the file open; when
\* opening fails (as it must when there is no file) no request was sent and
\* no record exists; blob_upload runs only on the opened file, after the one
\* POST /api/images was answered with an image that carries image_url; when
\* images_create fails or the image has no image_url, blob_upload was never
\* called: nothing was staged or committed.
C29_OpenCreateUpload ==
    /\ iu_requests # <<>> => (iu_handle = "open" /\ iu_file # NoFile)
    /\ Len(iu_requests) <= 1
    /\ iu_records <= Len(iu_requests)
    /\ (iu_handle = "closed" /\ iu_pc = "returned")
          => /\ iu_result.kind = "io_err"
             /\ iu_requests = <<>>
             /\ iu_records = 0
             /\ up_pc = "parked"
    /\ iu_file = NoFile => (iu_requests = <<>> /\ iu_records = 0 /\ up_pc = "parked")
    /\ up_pc # "parked"
          => /\ iu_handle = "open"
             /\ up_size = iu_file
             /\ iu_requests = <<[method |-> "POST", path |-> "/api/images",
                                 format |-> iu_format]>>
             /\ iu_records = 1
             /\ iu_image.image_url # NoUrl
             /\ iu_result.kind \notin {"create_err", "invalid_response", "io_err"}
    /\ iu_result.kind \in {"create_err", "invalid_response"}
          => /\ up_pc = "parked"
             /\ up_staged = 0
             /\ up_committed = -1
    /\ (iu_pc = "returned" /\ iu_image.image_url = NoUrl /\ iu_requests # <<>>)
          => iu_result.kind \in {"create_err", "invalid_response"}

\* the record was created but the response carries no image_url: the error
\* is InvalidResponse and blob_upload did not run
C29_Witness ==
    /\ iu_pc = "returned"
    /\ iu_file = U64(2 * MIN_BLOCK_SIZE + 1)
    /\ iu_handle = "open"
    /\ iu_records = 1
    /\ iu_image = [image_id |-> 1, image_url |-> NoUrl]
    /\ iu_result.kind = "invalid_response"
    /\ up_pc = "parked"

\* C30: whenever get_token or refresh_token returns an error, the credential
\* in memory (token and expires_on) is what it was before the call.  The
\* credential is behind the mutex the caller holds, so it is what it was
\* before the call exactly if the step that returns the error leaves it alone.
C30_FailedRefreshKeepsCredential ==
    [][\A r \in Requests :
          (pc[r] \in FlowPcs /\ pc'[r] = "failed") => auth' = auth]_vars

====
